---- MODULE Spec2Model ----
(***************************************************************************)
(* The chat relay of sf-chatbot-mcp: an HTTP endpoint, a spawned child     *)
(* tool server spoken to in newline-delimited JSON-RPC, the table of       *)
(* pending requests that correlates the child's answers with their         *)
(* callers, and the capped tool loop against the remote chat API.          *)
(*                                                                         *)
(* One action of the model is one turn of the Node event loop: a handler   *)
(* runs from the event that resumes it to the next await that suspends it. *)
(***************************************************************************)
EXTENDS Integers, Sequences, FiniteSets, TLC

(***************************************************************************)
(* Bounds of the model.                                                    *)
(***************************************************************************)
\* tool_use blocks the loop takes up in one run of the whole service
MaxToolCalls == 1
\* exit events of child processes in one run
MaxExits == 1
\* tool_use blocks the loop takes up in one run of the loop to its cap
MaxLoopCalls == 5
\* exchanges in one run
NumExch == 2
\* tool_use blocks the loops of concurrent exchanges take up in one run
MaxMuxCalls == 2
\* tool_use blocks a loop takes up in one run of the tool rounds
MaxTurnTools == 3
\* tool_use blocks a loop takes up in one run with a child that may exit
MaxSendTools == 2
\* tool_use blocks the uncapped loop takes up in one run
MaxSdkRounds == 6
\* ticks of the clock in one run
MaxTicks == 4
\* tool_use blocks the loops take up in one run with requests at any time
MaxRaceTools == 1

Exch == 1..NumExch
Proc == {0} \cup Exch          \* 0 is the app.listen callback

(***************************************************************************)
(* The three server files with a capped loop over sendMCPMessage.          *)
(***************************************************************************)
Variants == {"FullPower", "MCP", "Optimized"}

maxIterationsFullPower == 3
maxIterationsMCP == 5
maxIterationsOptimized == 2

\* const CACHE_TTL = 10 * 60 * 1000, in ticks of five minutes
CACHE_TTL == 2

maxIterations(v) ==
  CASE v = "FullPower" -> maxIterationsFullPower
    [] v = "MCP"       -> maxIterationsMCP
    [] v = "Optimized" -> maxIterationsOptimized

VARIABLES
  variant,          \* the server file that runs
  apiKey,           \* ANTHROPIC_API_KEY is set
  mcpProcess,       \* 0 for null, else the number of the spawned child
  mcpTools,         \* the advertised tool list
  requestId,        \* the id counter
  pendingRequests,  \* the Map id -> {resolve, reject}, as id -> index of the call
  calls,            \* every call of sendMCPMessage: its promise and its timer
  timersFired,      \* how many of the sendMCPMessage timers have fired
  spawned,          \* children spawned so far
  exited,           \* children whose exit event was emitted
  pc,               \* where each async function is suspended
  aw,               \* the call a suspended function awaits, 0 for none
  ex,               \* each exchange: conversation, latest response, counters
  responseCache,    \* the cache of the cost-optimized server: key -> entry
  now,              \* Date.now(), in ticks
  budget,           \* tool_use blocks the loop has taken up so far
  ev                \* the event handled last

vars == <<variant, apiKey, mcpProcess, mcpTools, requestId, pendingRequests,
          calls, timersFired, spawned, exited, pc, aw, ex, responseCache, now,
          budget, ev>>

(***************************************************************************)
(* Strings are sequences of tokens; " " is the whitespace token.           *)
(***************************************************************************)
RECURSIVE join(_, _)
\* Array.prototype.join
join(ss, sep) ==
  IF Len(ss) = 0 THEN <<>>
  ELSE IF Len(ss) = 1 THEN ss[1]
  ELSE ss[1] \o sep \o join(Tail(ss), sep)

RECURSIVE trimStart(_)
trimStart(s) ==
  IF Len(s) > 0 /\ s[1] = " " THEN trimStart(Tail(s)) ELSE s

RECURSIVE trimEnd(_)
trimEnd(s) ==
  IF Len(s) > 0 /\ s[Len(s)] = " " THEN trimEnd(SubSeq(s, 1, Len(s) - 1)) ELSE s

\* String.prototype.trim
trim(s) == trimEnd(trimStart(s))

\* Array.prototype.filter
filter(s, keep(_)) == SelectSeq(s, keep)

(***************************************************************************)
(* Map: set, delete, has.                                                  *)
(***************************************************************************)
mapSet(m, id, k) == [i \in DOMAIN m \cup {id} |-> IF i = id THEN k ELSE m[i]]

mapDelete(m, id) == [i \in DOMAIN m \ {id} |-> m[i]]

mapHas(m, id) == id \in DOMAIN m

\* String.prototype.includes, for a needle that is one token
includes(s, tok) == \E i \in 1..Len(s) : s[i] = tok

\* String.prototype.toLowerCase
lowerToken(t) ==
  CASE t = "Hola"  -> "hola"
    [] t = "Leads" -> "leads"
    [] OTHER       -> t

toLowerCase(s) == [i \in 1..Len(s) |-> lowerToken(s[i])]

(***************************************************************************)
(* Content blocks of the chat API.                                         *)
(***************************************************************************)
TextBlock(t) == [type |-> "text", text |-> t, id |-> ""]
ToolUseBlock(i) == [type |-> "tool_use", text |-> <<>>, id |-> i]
QuestionBlock(q) == [type |-> "string", text |-> q, id |-> ""]

isToolUse(item) == item.type = "tool_use"
isText(item) == item.type = "text"

\* data.content.some(item => item.type === 'tool_use')
someToolUse(content) == \E i \in 1..Len(content) : isToolUse(content[i])

toolUseCount(content) == Len(filter(content, isToolUse))

\* a faulty final text: joined, but not trimmed
finalTextUntrimmed(content) ==
  LET texts == filter(content, isText)
  IN join([i \in 1..Len(texts) |-> texts[i].text], <<" ">>)

\* data.content.filter(text).map(item => item.text).join(' ').trim()
finalTextOf(content) ==
  LET texts == filter(content, isText)
  IN trim(join([i \in 1..Len(texts) |-> texts[i].text], <<" ">>))

\* a faulty fallback: nothing is substituted for an empty finalText
fallbackTextEmpty(v) == <<>>

fallbackText(v) == <<"Lo siento, no pude procesar tu consulta">>

errorText(v, msg) == <<"X ", "Error", " procesando tu consulta: ", msg>>

apiErrorMessage(status) == "Claude API error"

(***************************************************************************)
(* Settlements of a call's promise.                                        *)
(***************************************************************************)
Resolved(by, payload) == [by |-> by, ok |-> TRUE, val |-> payload]
Rejected(by, msg) == [by |-> by, ok |-> FALSE, val |-> msg]

\* a faulty tool_result: the failure of the tool is not flagged
toolResultUnflagged(item, o) ==
  [type |-> "tool_result", tool_use_id |-> item.id, is_error |-> FALSE,
   content |-> IF o.ok /\ o.val = "null" THEN "TypeError" ELSE o.val]

\* a tool_result block of the loop, from the outcome of its tools/call
toolResult(item, o) ==
  IF o.ok /\ o.val # "null"
  THEN [type |-> "tool_result", tool_use_id |-> item.id, is_error |-> FALSE,
        content |-> o.val]
  ELSE [type |-> "tool_result", tool_use_id |-> item.id, is_error |-> TRUE,
        content |-> IF o.ok THEN "TypeError" ELSE o.val]

(***************************************************************************)
(* The mutable state a handler works on, as one record, so that a handler  *)
(* that runs on inside another's step (a settled promise resumes its       *)
(* awaiter in the same turn) composes as a function.                       *)
(***************************************************************************)
World ==
  [mcpProcess |-> mcpProcess, mcpTools |-> mcpTools, requestId |-> requestId,
   pendingRequests |-> pendingRequests, calls |-> calls, spawned |-> spawned,
   pc |-> pc, aw |-> aw, ex |-> ex, responseCache |-> responseCache]

Commit(w) ==
  /\ mcpProcess' = w.mcpProcess
  /\ mcpTools' = w.mcpTools
  /\ requestId' = w.requestId
  /\ pendingRequests' = w.pendingRequests
  /\ calls' = w.calls
  /\ spawned' = w.spawned
  /\ pc' = w.pc
  /\ aw' = w.aw
  /\ ex' = w.ex
  /\ responseCache' = w.responseCache

(***************************************************************************)
(* sendMCPMessage: the synchronous body of the promise executor.           *)
(***************************************************************************)
\* a faulty id source: a counter one bit wide, which wraps around
NextIdWrapped(r) == (r % 2) + 1

\* const id = ++requestId
NextId(r) == r + 1

\* mcpProcess && mcpProcess.stdin
channelAvailable(w) == w.mcpProcess # 0

\* a faulty send: without a child the call is left to its timer
sendMCPMessageWaitsForTimer(w, p, method, params) ==
  LET id == NextId(w.requestId)
  IN [w EXCEPT
        !.requestId = id,
        !.pendingRequests = mapSet(@, id, Len(w.calls) + 1),
        !.calls = Append(@,
           [id |-> id, method |-> method, params |-> params, owner |-> p,
            written |-> w.mcpProcess, settle |-> <<>>, answer |-> <<>>])]

sendMCPMessage(w, p, method, params) ==
  LET id == NextId(w.requestId)
      ok == channelAvailable(w)
  IN [w EXCEPT
        !.requestId = id,
        !.pendingRequests = mapSet(@, id, Len(w.calls) + 1),
        !.calls = Append(@,
           [id |-> id, method |-> method, params |-> params, owner |-> p,
            written |-> IF ok THEN w.mcpProcess ELSE 0,
            settle |-> IF ok THEN <<>>
                       ELSE <<Rejected("unavailable", "MCP process not available")>>,
            answer |-> <<>>])]

\* the call sendMCPMessage has just made
lastCall(w) == Len(w.calls)

(***************************************************************************)
(* POST /chat and the capped loop (callClaudeWithFullPower,                *)
(* callClaudeWithMCP, callClaudeOptimized).                                *)
(***************************************************************************)
NoResponse == [status |-> 0, mode |-> "", response |-> <<>>, error |-> "", fallback |-> <<>>]

\* res.json(...) / res.status(...).json(...)
respond(w, e, r) ==
  [w EXCEPT !.ex[e].http = r, !.ex[e].sent = @ + 1, !.pc[e] = "done", !.aw[e] = 0]

chatMode(v) ==
  IF v = "Optimized" THEN "optimized_claude" ELSE "full_claude_intelligence"

\* a faulty key: the question as it was typed
cacheKeyRaw(question) == question

\* const cacheKey = question.toLowerCase().trim()
cacheKeyOf(question) == trim(toLowerCase(question))

\* claudeResponse && !claudeResponse.includes('Error')
cacheable(text) == text # <<>> /\ ~includes(text, "Error")

\* the loop function returned text: the cost-optimized handler may cache it,
\* and the handler answers 200 with it
returnText(w, e, text) ==
  LET w1 == IF variant = "Optimized" /\ cacheable(text)
            THEN [w EXCEPT !.responseCache =
                     mapSet(@, cacheKeyOf(w.ex[e].question),
                            [response |-> text, timestamp |-> now])]
            ELSE w
  IN respond(w1, e, [NoResponse EXCEPT !.status = 200, !.mode = chatMode(variant),
                                       !.response = text])

\* await fetch(...): one more call to the upstream chat endpoint
startFetch(w, e, which) ==
  [w EXCEPT !.ex[e].nUpstream = @ + 1, !.pc[e] = which, !.aw[e] = 0]

\* the statements after the while loop
finalize(w, e) ==
  LET d == w.ex[e].data
  IN IF ~d.hasContent
     THEN returnText(w, e, errorText(variant, "TypeError"))
     ELSE LET finalText == finalTextOf(d.content)
          IN IF finalText = <<>>
             THEN returnText(w, e, fallbackText(variant))
             ELSE returnText(w, e, finalText)

RECURSIVE runToolsUnawaited(_, _)
\* a faulty loop: the tools of a turn are all sent, and the last is awaited
runToolsUnawaited(w, e) ==
  LET x == w.ex[e]
  IN IF x.idx > Len(x.data.content)
     THEN startFetch([w EXCEPT !.ex[e].messages =
                         Append(@, [role |-> "user", content |-> x.toolResults])],
                     e, "fetchNext")
     ELSE LET item == x.data.content[x.idx]
          IN IF ~isToolUse(item)
             THEN runToolsUnawaited([w EXCEPT !.ex[e].idx = @ + 1], e)
             ELSE LET w1 == sendMCPMessage(w, e, "tools/call", item.id)
                      k == lastCall(w1)
                  IN IF w1.calls[k].settle = <<>>
                     THEN IF x.idx < Len(x.data.content)
                          THEN runToolsUnawaited([w1 EXCEPT !.ex[e].idx = @ + 1], e)
                          ELSE [w1 EXCEPT !.pc[e] = "tool", !.aw[e] = k]
                     ELSE runToolsUnawaited(
                            [w1 EXCEPT
                               !.ex[e].toolResults =
                                   Append(@, toolResult(item, w1.calls[k].settle[1])),
                               !.ex[e].idx = @ + 1], e)

RECURSIVE runTools(_, _)
\* the for loop over data.content, from item idx on, up to the next await
runTools(w, e) ==
  LET x == w.ex[e]
  IN IF x.idx > Len(x.data.content)
     THEN startFetch([w EXCEPT !.ex[e].messages =
                         Append(@, [role |-> "user", content |-> x.toolResults])],
                     e, "fetchNext")
     ELSE LET item == x.data.content[x.idx]
          IN IF ~isToolUse(item)
             THEN runTools([w EXCEPT !.ex[e].idx = @ + 1], e)
             ELSE LET w1 == sendMCPMessage(w, e, "tools/call", item.id)
                      k == lastCall(w1)
                  IN IF w1.calls[k].settle = <<>>
                     THEN [w1 EXCEPT !.pc[e] = "tool", !.aw[e] = k]
                     ELSE runTools(
                            [w1 EXCEPT
                               !.ex[e].toolResults =
                                   Append(@, toolResult(item, w1.calls[k].settle[1])),
                               !.ex[e].idx = @ + 1], e)

\* a faulty catch: a failed tool leaves no tool_result behind
afterToolDropsFailure(w, e, o) ==
  LET x == w.ex[e]
      item == x.data.content[x.idx]
  IN runTools([w EXCEPT !.ex[e].toolResults =
                            IF o.ok THEN Append(@, toolResult(item, o)) ELSE @,
                        !.ex[e].idx = @ + 1,
                        !.aw[e] = 0], e)

\* a faulty catch: a tool that failed is called again
afterToolRetries(w, e, o) ==
  LET x == w.ex[e]
      item == x.data.content[x.idx]
  IN IF o.ok
     THEN runTools([w EXCEPT !.ex[e].toolResults = Append(@, toolResult(item, o)),
                             !.ex[e].idx = @ + 1,
                             !.aw[e] = 0], e)
     ELSE runTools([w EXCEPT !.aw[e] = 0], e)

\* the await of a tools/call ended with outcome o
afterTool(w, e, o) ==
  LET x == w.ex[e]
      item == x.data.content[x.idx]
  IN runTools([w EXCEPT !.ex[e].toolResults = Append(@, toolResult(item, o)),
                        !.ex[e].idx = @ + 1,
                        !.aw[e] = 0], e)

\* a faulty while condition: the iteration cap is not tested
loopTestUncapped(w, e) ==
  LET x == w.ex[e]
  IN IF x.data.hasContent /\ someToolUse(x.data.content)
     THEN runTools([w EXCEPT
                      !.ex[e].messages =
                          Append(@, [role |-> "assistant", content |-> x.data.content]),
                      !.ex[e].toolResults = <<>>,
                      !.ex[e].idx = 1], e)
     ELSE finalize(w, e)

\* a faulty loop body: the assistant turn replaces the conversation so far
loopTestRestartsConversation(w, e) ==
  LET x == w.ex[e]
  IN IF x.data.hasContent /\ someToolUse(x.data.content)
        /\ x.iterationCount < maxIterations(variant)
     THEN runTools([w EXCEPT
                      !.ex[e].messages =
                          <<[role |-> "assistant", content |-> x.data.content]>>,
                      !.ex[e].toolResults = <<>>,
                      !.ex[e].idx = 1], e)
     ELSE finalize(w, e)

\* a faulty while condition: the cap admits one iteration more
loopTestOffByOne(w, e) ==
  LET x == w.ex[e]
  IN IF x.data.hasContent /\ someToolUse(x.data.content)
        /\ x.iterationCount <= maxIterations(variant)
     THEN runTools([w EXCEPT
                      !.ex[e].messages =
                          Append(@, [role |-> "assistant", content |-> x.data.content]),
                      !.ex[e].toolResults = <<>>,
                      !.ex[e].idx = 1], e)
     ELSE finalize(w, e)

\* the while condition and what follows it
loopTest(w, e) ==
  LET x == w.ex[e]
  IN IF x.data.hasContent /\ someToolUse(x.data.content)
        /\ x.iterationCount < maxIterations(variant)
     THEN runTools([w EXCEPT
                      !.ex[e].messages =
                          Append(@, [role |-> "assistant", content |-> x.data.content]),
                      !.ex[e].toolResults = <<>>,
                      !.ex[e].idx = 1], e)
     ELSE finalize(w, e)

\* a faulty handling of a non-success status: the fetch is sent again
afterFetchRetries(w, e, r) ==
  IF ~r.ok
  THEN startFetch(w, e, w.pc[e])
  ELSE LET w1 == [w EXCEPT !.ex[e].data = [hasContent |-> r.hasContent,
                                           content |-> r.content],
                           !.ex[e].iterationCount =
                               IF w.pc[e] = "fetchNext" THEN @ + 1 ELSE @]
       IN loopTest(w1, e)

\* the upstream answered a fetch with r: [ok, hasContent, content]
afterFetch(w, e, r) ==
  IF ~r.ok
  THEN returnText(w, e, errorText(variant, apiErrorMessage(r)))
  ELSE LET w1 == [w EXCEPT !.ex[e].data = [hasContent |-> r.hasContent,
                                           content |-> r.content],
                           !.ex[e].iterationCount =
                               IF w.pc[e] = "fetchNext" THEN @ + 1 ELSE @]
       IN loopTest(w1, e)

\* a faulty loop function that clears the advertised tools as it starts
callClaudeForgetsTools(w, e) ==
  startFetch([w EXCEPT !.mcpTools = <<>>, !.ex[e].messages =
                <<[role |-> "user", content |-> <<QuestionBlock(w.ex[e].question)>>]>>],
             e, "fetchFirst")

\* callClaude...(question) up to its first await
callClaude(w, e) ==
  startFetch([w EXCEPT !.ex[e].messages =
                <<[role |-> "user", content |-> <<QuestionBlock(w.ex[e].question)>>]>>],
             e, "fetchFirst")

(***************************************************************************)
(* initMCPServer, run by the app.listen callback (process 0) or by a       *)
(* POST /chat that finds mcpProcess null.                                  *)
(***************************************************************************)
\* spawn(...) and the handlers, up to the await of the 2 s timer
initMCPServer(w, p) ==
  [w EXCEPT !.spawned = @ + 1, !.mcpProcess = w.spawned + 1,
            !.pc[p] = "initWait", !.aw[p] = 0]

\* a faulty handler: the result of initMCPServer is not looked at
initReturnUnchecked(w, p, connected) ==
  IF p = 0
  THEN [w EXCEPT !.pc[p] = "done", !.aw[p] = 0]
  ELSE callClaude(w, p)

\* initMCPServer returned connected to its caller
initReturn(w, p, connected) ==
  IF p = 0
  THEN [w EXCEPT !.pc[p] = "done", !.aw[p] = 0]
  ELSE IF connected
       THEN callClaude(w, p)
       ELSE respond(w, p, [NoResponse EXCEPT !.status = 200, !.mode = "error",
                                             !.response = <<"No puedo conectar">>])

\* await sendMCPMessage(method): suspended, or rejected at once
initSend(w, p, method, where) ==
  LET w1 == sendMCPMessage(w, p, method, "")
      k == lastCall(w1)
  IN IF w1.calls[k].settle = <<>>
     THEN [w1 EXCEPT !.pc[p] = where, !.aw[p] = k]
     ELSE initReturn(w1, p, FALSE)

\* the 2 s wait is over
afterInitWait(w, p) == initSend(w, p, "initialize", "initHandshake")

\* the initialize call ended with outcome o
afterInitialize(w, p, o) ==
  IF o.ok THEN initSend([w EXCEPT !.aw[p] = 0], p, "tools/list", "initList")
  ELSE initReturn(w, p, FALSE)

\* toolsResponse.tools || []
toolsOf(payload) == IF payload = "obj" THEN <<"tool1">> ELSE <<>>

\* the tools/list call ended with outcome o
afterToolsList(w, p, o) ==
  IF o.ok /\ o.val # "null"
  THEN initReturn([w EXCEPT !.mcpTools = toolsOf(o.val)], p, TRUE)
  ELSE initReturn(w, p, FALSE)

(***************************************************************************)
(* Settling a call: resolve(...) or reject(...) of call k. The first       *)
(* settlement of a promise resumes the function that awaits it.            *)
(***************************************************************************)
resume(w, p, o) ==
  CASE w.pc[p] = "initHandshake" -> afterInitialize(w, p, o)
    [] w.pc[p] = "initList"      -> afterToolsList(w, p, o)
    [] w.pc[p] = "tool"          -> afterTool(w, p, o)
    [] OTHER                     -> w

settle(w, k, o) ==
  LET c == w.calls[k]
      w1 == [w EXCEPT !.calls[k].settle = Append(@, o)]
  IN IF c.settle = <<>> /\ w.aw[c.owner] = k
     THEN resume(w1, c.owner, o)
     ELSE w1

(***************************************************************************)
(* rl.on('line'): one line of the child's stdout.                          *)
(***************************************************************************)
\* message.id && pendingRequests.has(message.id)
lineMatches(w, m) == m.json /\ m.id # 0 /\ mapHas(w.pendingRequests, m.id)

\* message.error ? reject(new Error(message.error.message || 'MCP error'))
\*               : resolve(message.result)
lineOutcome(m) ==
  IF m.error
  THEN Rejected("error", IF m.val = "" THEN "MCP error" ELSE m.val)
  ELSE Resolved("response", m.val)

\* a faulty lookup: an envelope is taken for the answer to the oldest entry
lineTargetOldest(w, m) ==
  IF m.json /\ m.id # 0 /\ DOMAIN w.pendingRequests # {}
  THEN w.pendingRequests[CHOOSE i \in DOMAIN w.pendingRequests :
                            \A j \in DOMAIN w.pendingRequests : i <= j]
  ELSE 0

\* a faulty lookup: an envelope is taken for the answer to the newest entry
lineTargetNewest(w, m) ==
  IF m.json /\ m.id # 0 /\ mapHas(w.pendingRequests, m.id)
  THEN w.pendingRequests[CHOOSE i \in DOMAIN w.pendingRequests :
                            \A j \in DOMAIN w.pendingRequests : i >= j]
  ELSE 0

\* pendingRequests.get(message.id): the call a line settles, 0 for none
lineTarget(w, m) == IF lineMatches(w, m) THEN w.pendingRequests[m.id] ELSE 0

\* a faulty handler: a line that does not parse fails the oldest call
onLineStrict(w, m) ==
  IF m.json
  THEN LET k == lineTarget(w, m)
       IN IF k # 0
          THEN settle([w EXCEPT !.pendingRequests = mapDelete(@, m.id),
                                !.calls[k].answer = Append(@, m)], k,
                      lineOutcome(m))
          ELSE w
  ELSE IF DOMAIN w.pendingRequests = {} THEN w
       ELSE LET i == CHOOSE i \in DOMAIN w.pendingRequests :
                        \A j \in DOMAIN w.pendingRequests : i <= j
            IN settle([w EXCEPT !.pendingRequests = mapDelete(@, i)],
                      w.pendingRequests[i], Rejected("error", "parse error"))

\* rl.on('line'): the whole handler
onLine(w, m) ==
  LET k == lineTarget(w, m)
  IN IF k # 0
     THEN settle([w EXCEPT !.pendingRequests = mapDelete(@, m.id),
                           !.calls[k].answer = Append(@, m)], k, lineOutcome(m))
     ELSE w

(***************************************************************************)
(* The setTimeout callback of call k.                                      *)
(***************************************************************************)
\* a faulty callback: it deletes the entry, and does not reject
onTimeoutNoReject(w, k) ==
  LET id == w.calls[k].id
  IN IF mapHas(w.pendingRequests, id)
     THEN [w EXCEPT !.pendingRequests = mapDelete(@, id)]
     ELSE w

\* a faulty callback: it rejects, and leaves the entry in the table
onTimeoutNoDelete(w, k) ==
  IF mapHas(w.pendingRequests, w.calls[k].id)
  THEN settle(w, k, Rejected("timeout", "MCP request timeout"))
  ELSE w

onTimeout(w, k) ==
  LET id == w.calls[k].id
  IN IF mapHas(w.pendingRequests, id)
     THEN settle([w EXCEPT !.pendingRequests = mapDelete(@, id)], k,
                 Rejected("timeout", "MCP request timeout"))
     ELSE w

(***************************************************************************)
(* app.post('/chat'): the handler up to its first await.                   *)
(***************************************************************************)
\* isSimpleQuery(question).simple of the cost-optimized server
isSimpleQuery(question) ==
  LET lowerQ == toLowerCase(question)
  IN \/ lowerQ = <<"hola">>
     \/ includes(lowerQ, "messi")

\* a faulty test of the age of an entry: the comparison is reversed
cacheHitReversed(w, key) ==
  /\ mapHas(w.responseCache, key)
  /\ now - w.responseCache[key].timestamp > CACHE_TTL

\* a faulty test of the age of an entry: an entry of age CACHE_TTL is served
cacheHitInclusive(w, key) ==
  /\ mapHas(w.responseCache, key)
  /\ now - w.responseCache[key].timestamp <= CACHE_TTL

\* cached && (Date.now() - cached.timestamp) < CACHE_TTL
cacheHit(w, key) ==
  /\ mapHas(w.responseCache, key)
  /\ now - w.responseCache[key].timestamp < CACHE_TTL

\* a faulty test of the question: an empty question passes
questionMissingNever(question) == FALSE

\* !question
questionMissing(question) == question = <<>>

\* a faulty test of the key: the handler goes on without a key
keyMissingNever == FALSE

\* !ANTHROPIC_API_KEY
keyMissing == ~apiKey

\* `[MODO BASICO] Pregunta: ${question}. Configura ANTHROPIC_API_KEY.`
basicText(question) ==
  <<"[MODO BASICO] Pregunta: ">> \o question \o <<". Configura ANTHROPIC_API_KEY.">>

\* a faulty handler whose cache hit renews the timestamp of the entry
chatHandlerRefreshesEntry(w, e, question) ==
  LET w0 == [w EXCEPT !.ex[e].question = question]
  IN IF questionMissing(question)
     THEN respond(w0, e, [NoResponse EXCEPT !.status = 400, !.error = "Pregunta requerida"])
     ELSE IF keyMissing
     THEN respond(w0, e, [NoResponse EXCEPT !.status = 200, !.mode = "basic",
                             !.response = basicText(question)])
     ELSE IF variant = "Optimized" /\ isSimpleQuery(question)
     THEN respond(w0, e, [NoResponse EXCEPT !.status = 200, !.mode = "simple_response",
                             !.response = <<"Respuesta simple">>])
     ELSE IF variant = "Optimized" /\ cacheHit(w0, cacheKeyOf(question))
     THEN respond([w0 EXCEPT !.responseCache[cacheKeyOf(question)].timestamp = now],
                  e, [NoResponse EXCEPT !.status = 200, !.mode = "cached",
                      !.response = w0.responseCache[cacheKeyOf(question)].response])
     ELSE IF w0.mcpProcess = 0
     THEN initMCPServer(w0, e)
     ELSE callClaude(w0, e)

\* a faulty handler that runs initMCPServer whether a child is there or not
chatHandlerRespawns(w, e, question) ==
  LET w0 == [w EXCEPT !.ex[e].question = question]
  IN IF questionMissing(question)
     THEN respond(w0, e, [NoResponse EXCEPT !.status = 400, !.error = "Pregunta requerida"])
     ELSE IF keyMissing
     THEN respond(w0, e, [NoResponse EXCEPT !.status = 200, !.mode = "basic",
                             !.response = basicText(question)])
     ELSE initMCPServer(w0, e)

\* app.post('/chat') of the JSON-RPC servers, up to its first await
chatHandler(w, e, question) ==
  LET w0 == [w EXCEPT !.ex[e].question = question]
  IN IF questionMissing(question)
     THEN respond(w0, e, [NoResponse EXCEPT !.status = 400, !.error = "Pregunta requerida"])
     ELSE IF keyMissing
     THEN respond(w0, e, [NoResponse EXCEPT !.status = 200, !.mode = "basic",
                             !.response = basicText(question)])
     ELSE IF variant = "Optimized" /\ isSimpleQuery(question)
     THEN respond(w0, e, [NoResponse EXCEPT !.status = 200, !.mode = "simple_response",
                             !.response = <<"Respuesta simple">>])
     ELSE IF variant = "Optimized" /\ cacheHit(w0, cacheKeyOf(question))
     THEN respond(w0, e, [NoResponse EXCEPT !.status = 200, !.mode = "cached",
                             !.response = w0.responseCache[cacheKeyOf(question)].response])
     ELSE IF w0.mcpProcess = 0
     THEN initMCPServer(w0, e)
     ELSE callClaude(w0, e)

(***************************************************************************)
(* The server over the SDK client (initMCPClient, callClaudeWithRealMCP):  *)
(* the client keeps its own table of calls; connect, listTools and         *)
(* callTool are promises that the client settles.                          *)
(***************************************************************************)
SdkVariants == {"RealMCP"}

\* mcpClient is assigned in the turn that spawns the child, and never reset
mcpClientSet(w) == w.spawned > 0

\* data.content.filter(text).map(item => item.text).join(' ')
sdkFinalTextOf(content) ==
  LET texts == filter(content, isText)
  IN join([i \in 1..Len(texts) |-> texts[i].text], <<" ">>)

sdkFallbackText == <<"Error procesando respuesta final">>

\* the catch of the handler: res.status(500).json({error, fallback})
respond500(w, e, msg) ==
  respond(w, e, [NoResponse EXCEPT
                   !.status = 500, !.error = msg,
                   !.fallback = <<"Pregunta recibida: ">> \o w.ex[e].question])

\* the statements after the while loop
sdkFinalize(w, e) ==
  LET d == w.ex[e].data
  IN IF ~d.hasContent
     THEN respond500(w, e, "TypeError")
     ELSE LET finalText == sdkFinalTextOf(d.content)
          IN respond(w, e, [NoResponse EXCEPT
                              !.status = 200, !.mode = "mcp_protocol",
                              !.response = IF finalText = <<>> THEN sdkFallbackText
                                           ELSE finalText])

RECURSIVE sdkRunTools(_, _)
\* the for loop over data.content, from item idx on, up to the next await
sdkRunTools(w, e) ==
  LET x == w.ex[e]
  IN IF x.idx > Len(x.data.content)
     THEN startFetch([w EXCEPT !.ex[e].messages =
                         Append(@, [role |-> "user", content |-> x.toolResults])],
                     e, "fetchNext")
     ELSE IF ~isToolUse(x.data.content[x.idx])
          THEN sdkRunTools([w EXCEPT !.ex[e].idx = @ + 1], e)
          ELSE [w EXCEPT !.pc[e] = "sdkTool", !.aw[e] = 0]

\* the await of mcpClient.callTool ended with outcome o
sdkAfterTool(w, e, o) ==
  LET x == w.ex[e]
      item == x.data.content[x.idx]
  IN sdkRunTools([w EXCEPT !.ex[e].toolResults = Append(@, toolResult(item, o)),
                           !.ex[e].idx = @ + 1], e)

\* the while condition, which has no counter, and what follows it
sdkLoopTest(w, e) ==
  LET x == w.ex[e]
  IN IF x.data.hasContent /\ someToolUse(x.data.content)
     THEN sdkRunTools([w EXCEPT
                         !.ex[e].messages =
                             Append(@, [role |-> "assistant", content |-> x.data.content]),
                         !.ex[e].toolResults = <<>>,
                         !.ex[e].idx = 1], e)
     ELSE sdkFinalize(w, e)

\* the upstream answered a fetch with r; a throw reaches the handler's catch
sdkAfterFetch(w, e, r) ==
  IF ~r.ok
  THEN respond500(w, e, apiErrorMessage(r))
  ELSE sdkLoopTest([w EXCEPT !.ex[e].data = [hasContent |-> r.hasContent,
                                             content |-> r.content]], e)

\* spawn(...), new Client(...), up to the await of connect
initMCPClient(w, p) ==
  [w EXCEPT !.spawned = @ + 1, !.mcpProcess = w.spawned + 1,
            !.pc[p] = "sdkConnect", !.aw[p] = 0]

\* initMCPClient returned connected to its caller
sdkInitReturn(w, p, connected) ==
  IF p = 0
  THEN [w EXCEPT !.pc[p] = "done"]
  ELSE IF connected
       THEN callClaude(w, p)
       ELSE respond(w, p, [NoResponse EXCEPT !.status = 200, !.mode = "error",
                                             !.response = <<"No puedo conectar">>])

\* await mcpClient.connect(transport) ended
sdkAfterConnect(w, p, ok) ==
  IF ok THEN [w EXCEPT !.pc[p] = "sdkList"] ELSE sdkInitReturn(w, p, FALSE)

\* await mcpClient.listTools() ended with outcome o
sdkAfterListTools(w, p, o) ==
  IF o.ok /\ o.val # "null"
  THEN sdkInitReturn([w EXCEPT !.mcpTools = toolsOf(o.val)], p, TRUE)
  ELSE sdkInitReturn(w, p, FALSE)

\* app.post('/chat') of the SDK server, up to its first await
sdkChatHandler(w, e, question) ==
  LET w0 == [w EXCEPT !.ex[e].question = question]
  IN IF questionMissing(question)
     THEN respond(w0, e, [NoResponse EXCEPT !.status = 400, !.error = "Pregunta requerida"])
     ELSE IF keyMissing
     THEN respond(w0, e, [NoResponse EXCEPT !.status = 200, !.mode = "basic",
                             !.response = basicText(question)])
     ELSE IF ~mcpClientSet(w0)
     THEN initMCPClient(w0, e)
     ELSE callClaude(w0, e)

(***************************************************************************)
(* The server with the tools in-process (salesforce_query_records,         *)
(* salesforce_aggregate_query, callClaudeWithMCPTools): no child; a tool   *)
(* is a function that awaits sfConnection.query.  sfConnection is held in  *)
(* mcpProcess: 0 for null, else the number of the Connection object.       *)
(***************************************************************************)
DirectVariants == {"DirectTools"}

DirectTools == {"salesforce_query_records", "salesforce_aggregate_query", "other"}

\* a tool_use block with the name of the tool it asks for
DirectToolUse(i, name) == [type |-> "tool_use", text |-> <<>>, id |-> i, name |-> name]

\* sfConnection = new jsforce.Connection(...), up to the await of login
initSalesforceConnection(w, p) ==
  [w EXCEPT !.spawned = @ + 1, !.mcpProcess = w.spawned + 1,
            !.pc[p] = "sfLogin", !.aw[p] = 0]

\* content[0]?.text || fallback
directTextOf(content, fallback) ==
  IF content # <<>> /\ isText(content[1]) /\ content[1].text # <<>>
  THEN content[1].text
  ELSE fallback

\* callClaudeWithMCPTools returned text: res.json({response, mode: 'mcp_tools'})
directReturn(w, e, text) ==
  respond(w, e, [NoResponse EXCEPT !.status = 200, !.mode = "mcp_tools",
                                   !.response = text])

\* JSON.stringify of what a tool function returned
ToolValue(success, error) == [success |-> success, error |-> error]

RECURSIVE directRunTools(_, _)
\* the for loop over data.content, from item idx on, up to the next await
directRunTools(w, e) ==
  LET x == w.ex[e]
  IN IF x.idx > Len(x.data.content)
     THEN startFetch([w EXCEPT !.ex[e].messages =
                         @ \o <<[role |-> "assistant", content |-> x.data.content],
                                [role |-> "user", content |-> x.toolResults]>>],
                     e, "fetchNext")
     ELSE LET item == x.data.content[x.idx]
          IN IF ~isToolUse(item)
             THEN directRunTools([w EXCEPT !.ex[e].idx = @ + 1], e)
             ELSE IF item.name \in {"salesforce_query_records",
                                    "salesforce_aggregate_query"}
             THEN [w EXCEPT !.pc[e] = "sfQuery", !.aw[e] = 0]
             ELSE directRunTools(
                    [w EXCEPT !.ex[e].toolResults =
                                  Append(@, [tool_use_id |-> item.id,
                                             content |-> "undefined"]),
                              !.ex[e].idx = @ + 1], e)

\* the catch of salesforce_query_records: it reads soql, which is declared
\* with let inside the try block and is out of scope here, so the catch
\* throws a ReferenceError; callClaudeWithMCPTools rethrows, /chat answers 500
queryRecordsFailed(w, e, msg) == respond500(w, e, "soql is not defined")

\* the catch of salesforce_aggregate_query: return {success: false, error}
aggregateFailed(w, e, msg) ==
  directRunTools(
    [w EXCEPT !.ex[e].toolResults =
                  Append(@, [tool_use_id |-> w.ex[e].data.content[w.ex[e].idx].id,
                             content |-> ToolValue(FALSE, msg)]),
              !.ex[e].idx = @ + 1], e)

\* the await of sfConnection.query ended with outcome o
directAfterQuery(w, e, o) ==
  LET x == w.ex[e]
      item == x.data.content[x.idx]
  IN IF o.ok
     THEN directRunTools(
            [w EXCEPT !.ex[e].toolResults =
                          Append(@, [tool_use_id |-> item.id,
                                     content |-> ToolValue(TRUE, "")]),
                      !.ex[e].idx = @ + 1], e)
     ELSE IF item.name = "salesforce_query_records"
          THEN queryRecordsFailed(w, e, o.val)
          ELSE aggregateFailed(w, e, o.val)

\* the first upstream call answered with r
directAfterFetch(w, e, r) ==
  IF ~r.ok
  THEN respond500(w, e, apiErrorMessage(r))
  ELSE IF r.hasContent /\ someToolUse(r.content)
  THEN directRunTools([w EXCEPT !.ex[e].data = [hasContent |-> TRUE,
                                                content |-> r.content],
                                !.ex[e].toolResults = <<>>,
                                !.ex[e].idx = 1], e)
  ELSE IF ~r.hasContent
  THEN respond500(w, e, "TypeError")
  ELSE directReturn(w, e, directTextOf(r.content, <<"Error procesando respuesta">>))

\* the follow-up upstream call answered with r: response.ok is not looked at
directAfterFollowUp(w, e, r) ==
  IF ~r.hasContent
  THEN respond500(w, e, "TypeError")
  ELSE directReturn(w, e, directTextOf(r.content, <<"Error procesando resultados">>))

\* callClaudeWithMCPTools(question) up to its first await
callClaudeWithMCPTools(w, e) ==
  startFetch([w EXCEPT !.ex[e].messages =
                <<[role |-> "user", content |-> <<QuestionBlock(w.ex[e].question)>>]>>],
             e, "fetchFirst")

\* initSalesforceConnection returned connected to its caller
directInitReturn(w, p, connected) ==
  IF p = 0
  THEN [w EXCEPT !.pc[p] = "done"]
  ELSE IF connected
       THEN callClaudeWithMCPTools(w, p)
       ELSE respond(w, p, [NoResponse EXCEPT !.status = 200, !.mode = "error",
                                             !.response = <<"No puedo conectar">>])

\* app.post('/chat') of the server with in-process tools, up to its first await
directChatHandler(w, e, question) ==
  LET w0 == [w EXCEPT !.ex[e].question = question]
  IN IF questionMissing(question)
     THEN respond(w0, e, [NoResponse EXCEPT !.status = 400, !.error = "Pregunta requerida"])
     ELSE IF keyMissing
     THEN respond(w0, e, [NoResponse EXCEPT !.status = 200, !.mode = "basic",
                             !.response = basicText(question)])
     ELSE IF w0.mcpProcess = 0
     THEN initSalesforceConnection(w0, e)
     ELSE callClaudeWithMCPTools(w0, e)

(***************************************************************************)
(* Inputs.                                                                 *)
(***************************************************************************)
Questions == {<<>>, <<"leads">>}

Payloads == {"null", "obj"}
ErrorMessages == {"", "boom"}

Envelope(i, err, v) == [json |-> TRUE, id |-> i, error |-> err, val |-> v]
TextLine == [json |-> FALSE, id |-> 0, error |-> FALSE, val |-> ""]

\* the answers a child may give to the calls in the table
Answers ==
  {Envelope(i, FALSE, v) : i \in DOMAIN pendingRequests, v \in Payloads}
  \cup {Envelope(i, TRUE, v) : i \in DOMAIN pendingRequests, v \in ErrorMessages}

\* the lines a child may print: free text, or an envelope with any id
Lines ==
  Answers
  \cup {TextLine}
  \cup {Envelope(i, FALSE, "obj") : i \in (0..(requestId + 1)) \ DOMAIN pendingRequests}
  \cup {Envelope(i, TRUE, "boom") : i \in (0..(requestId + 1)) \ DOMAIN pendingRequests}

\* a child that answers a call with a result or with an error
PlainAnswers ==
  {Envelope(i, FALSE, "obj") : i \in DOMAIN pendingRequests}
  \cup {Envelope(i, TRUE, "boom") : i \in DOMAIN pendingRequests}

\* a child that completes the handshake, and answers or fails a tools/call
LoopAnswers ==
  {Envelope(i, FALSE, "obj") : i \in DOMAIN pendingRequests}
  \cup {Envelope(i, TRUE, "boom") :
           i \in {j \in DOMAIN pendingRequests :
                    calls[pendingRequests[j]].method = "tools/call"}}

\* the same child, which may also answer a tools/call without a result
ToolAnswers ==
  LoopAnswers
  \cup {Envelope(i, FALSE, "null") :
           i \in {j \in DOMAIN pendingRequests :
                    calls[pendingRequests[j]].method = "tools/call"}}

FailedReply == [ok |-> FALSE, hasContent |-> FALSE, content |-> <<>>]
Reply(c) == [ok |-> TRUE, hasContent |-> TRUE, content |-> c]

\* the bodies of an upstream answer
Contents ==
  { <<>>,
    <<TextBlock(<<"a">>)>>,
    <<TextBlock(<<" ">>)>>,
    <<TextBlock(<<" ", "a">>), TextBlock(<<"b", " ">>)>>,
    <<ToolUseBlock("tu1")>>,
    <<TextBlock(<<"a">>), ToolUseBlock("tu1"), ToolUseBlock("tu2")>> }

Replies ==
  {FailedReply, [ok |-> TRUE, hasContent |-> FALSE, content |-> <<>>]}
  \cup {Reply(c) : c \in Contents}

\* an upstream that fails, answers in text, or asks for one tool
FewReplies ==
  {FailedReply, Reply(<<TextBlock(<<"a">>)>>), Reply(<<ToolUseBlock("tu1")>>)}

\* an upstream that never asks for a tool
TextReplies == {FailedReply, Reply(<<TextBlock(<<"a">>)>>)}

(***************************************************************************)
(* The actions: one per event of the event loop.                           *)
(***************************************************************************)
NewExchange ==
  [question |-> <<>>, messages |-> <<>>,
   data |-> [hasContent |-> FALSE, content |-> <<>>],
   iterationCount |-> 0, idx |-> 0, toolResults |-> <<>>,
   nUpstream |-> 0, http |-> NoResponse, sent |-> 0]

Init ==
  /\ variant \in Variants
  /\ apiKey \in BOOLEAN
  /\ mcpProcess = 0
  /\ mcpTools = <<>>
  /\ requestId = 0
  /\ pendingRequests = <<>>
  /\ calls = <<>>
  /\ timersFired = 0
  /\ spawned = 0
  /\ exited = {}
  /\ pc = [p \in Proc |-> IF p = 0 THEN "boot" ELSE "idle"]
  /\ aw = [p \in Proc |-> 0]
  /\ ex = [e \in Exch |-> NewExchange]
  /\ responseCache = <<>>
  /\ now = 0
  /\ budget = 0
  /\ ev = [type |-> "none", id |-> 0, ok |-> TRUE]

\* the app.listen callback
Listen ==
  /\ pc[0] = "boot"
  /\ Commit(initMCPServer(World, 0))
  /\ ev' = [type |-> "listen", id |-> 0, ok |-> TRUE]
  /\ UNCHANGED <<variant, apiKey, timersFired, exited, now, budget>>

\* the 2 s timer of initMCPServer fires
InitWaitDone(p) ==
  /\ pc[p] = "initWait"
  /\ Commit(afterInitWait(World, p))
  /\ ev' = [type |-> "initWait", id |-> p, ok |-> TRUE]
  /\ UNCHANGED <<variant, apiKey, timersFired, exited, now, budget>>

\* a POST /chat arrives
Request(e, question) ==
  /\ pc[0] # "boot"
  /\ pc[e] = "idle"
  /\ Commit(chatHandler(World, e, question))
  /\ ev' = [type |-> "request", id |-> e, ok |-> TRUE]
  /\ UNCHANGED <<variant, apiKey, timersFired, exited, now, budget>>

\* the upstream answers the fetch of exchange e; the loop takes up at most
\* maxTools tool_use blocks in a run
UpstreamReply(e, r, maxTools) ==
  /\ pc[e] \in {"fetchFirst", "fetchNext"}
  /\ LET w == afterFetch(World, e, r)
         taken == IF Len(w.ex[e].messages) > Len(ex[e].messages)
                  THEN toolUseCount(r.content) ELSE 0
     IN /\ budget + taken <= maxTools
        /\ Commit(w)
        /\ budget' = budget + taken
  /\ ev' = [type |-> "fetch", id |-> e, ok |-> r.ok]
  /\ UNCHANGED <<variant, apiKey, timersFired, exited, now>>

\* a line of a child's stdout
Line(m) ==
  /\ spawned > 0
  /\ Commit(onLine(World, m))
  /\ ev' = [type |-> "line", id |-> m.id, ok |-> m.json]
  /\ UNCHANGED <<variant, apiKey, timersFired, exited, now, budget>>

\* the next sendMCPMessage timer fires (equal delays: in the order armed)
Timeout ==
  /\ timersFired < Len(calls)
  /\ Commit(onTimeout(World, timersFired + 1))
  /\ timersFired' = timersFired + 1
  /\ ev' = [type |-> "timeout", id |-> timersFired + 1, ok |-> TRUE]
  /\ UNCHANGED <<variant, apiKey, exited, now, budget>>

\* mcpProcess.on('exit'): mcpProcess = null
ChildExit(g) ==
  /\ g \in (1..spawned) \ exited
  /\ Cardinality(exited) < MaxExits
  /\ exited' = exited \cup {g}
  /\ mcpProcess' = 0
  /\ ev' = [type |-> "exit", id |-> g, ok |-> TRUE]
  /\ UNCHANGED <<variant, apiKey, mcpTools, requestId, pendingRequests, calls,
                 timersFired, spawned, pc, aw, ex, responseCache, now, budget>>

(***************************************************************************)
(* Spec: the whole service, with a child that answers the calls in the     *)
(* table in any way or not at all and may exit, and an upstream that asks  *)
(* for few tools.                                                          *)
(***************************************************************************)
Next ==
  \/ Listen
  \/ \E p \in Proc : InitWaitDone(p)
  \/ \E q \in Questions : Request(1, q)
  \/ \E r \in FewReplies : UpstreamReply(1, r, MaxToolCalls)
  \/ \E m \in Answers : Line(m)
  \/ Timeout
  \/ \E g \in 1..spawned : ChildExit(g)

Spec == Init /\ [][Next]_vars

(***************************************************************************)
(* TableSpec: the table of pending requests under every line a child may   *)
(* print, including lines for ids that are not in the table; the calls are *)
(* those of initMCPServer.                                                 *)
(***************************************************************************)
TableNext ==
  \/ Listen
  \/ \E p \in Proc : InitWaitDone(p)
  \/ \E q \in Questions : Request(1, q)
  \/ \E r \in TextReplies : UpstreamReply(1, r, 0)
  \/ \E m \in Lines : Line(m)
  \/ Timeout
  \/ \E g \in 1..spawned : ChildExit(g)

TableSpec == Init /\ [][TableNext]_vars

(***************************************************************************)
(* LoopSpec: the capped loop to its full depth, under every upstream       *)
(* answer; the child completes the handshake of the start-up before the    *)
(* request arrives, and answers, fails or ignores each tools/call.         *)
(***************************************************************************)
\* a request that arrives after the start-up has finished
LateRequest(e, question) ==
  /\ pc[0] = "done"
  /\ Request(e, question)

\* the timer of a tools/call, or of a call that was answered, fires
ToolTimeout ==
  /\ timersFired < Len(calls)
  /\ \/ calls[timersFired + 1].method = "tools/call"
     \/ calls[timersFired + 1].settle # <<>>
  /\ Timeout

LoopNext ==
  \/ Listen
  \/ \E p \in Proc : InitWaitDone(p)
  \/ \E q \in Questions : LateRequest(1, q)
  \/ \E r \in Replies : UpstreamReply(1, r, MaxLoopCalls)
  \/ \E m \in LoopAnswers : Line(m)
  \/ ToolTimeout

\* the API key is configured
LoopInit == Init /\ apiKey = TRUE

LoopSpec == LoopInit /\ [][LoopNext]_vars

(***************************************************************************)
(* CacheSpec: the cost-optimized server with a key, two exchanges, a clock *)
(* and the periodic sweep of the cache; the upstream asks for no tool, the *)
(* child completes the handshake and may exit later.                       *)
(***************************************************************************)
\* the clock advances by one tick
Tick ==
  /\ now < MaxTicks
  /\ now' = now + 1
  /\ ev' = [type |-> "tick", id |-> 0, ok |-> TRUE]
  /\ UNCHANGED <<variant, apiKey, mcpProcess, mcpTools, requestId, pendingRequests,
                 calls, timersFired, spawned, exited, pc, aw, ex, responseCache,
                 budget>>

\* a faulty sweep: an entry of age CACHE_TTL is deleted too
sweepInclusive(cache) ==
  [key \in {k \in DOMAIN cache : ~(now - cache[k].timestamp >= CACHE_TTL)}
     |-> cache[key]]

\* if (now - value.timestamp > CACHE_TTL) responseCache.delete(key)
sweep(cache) ==
  [key \in {k \in DOMAIN cache : ~(now - cache[k].timestamp > CACHE_TTL)}
     |-> cache[key]]

\* the setInterval callback, every CACHE_TTL
Sweep ==
  /\ variant = "Optimized"
  /\ now > 0
  /\ now % CACHE_TTL = 0
  /\ responseCache' = sweep(responseCache)
  /\ ev' = [type |-> "sweep", id |-> 0, ok |-> TRUE]
  /\ UNCHANGED <<variant, apiKey, mcpProcess, mcpTools, requestId, pendingRequests,
                 calls, timersFired, spawned, exited, pc, aw, ex, now, budget>>

\* questions that differ in case and outer whitespace, another question, a
\* greeting, none
CacheQuestions == {<<>>, <<"leads">>, <<"Leads", " ">>, <<"cuentas">>, <<"Hola">>}

\* an upstream that fails, answers without content or without text, or in text
CacheReplies ==
  {FailedReply, [ok |-> TRUE, hasContent |-> FALSE, content |-> <<>>],
   Reply(<<>>), Reply(<<TextBlock(<<"a">>)>>)}

\* the requests are numbered in the order they arrive
NextRequest(e, question) ==
  /\ \A f \in Exch : f < e => pc[f] # "idle"
  /\ LateRequest(e, question)

CacheInit == Init /\ apiKey = TRUE /\ variant = "Optimized"

CacheNext ==
  \/ Listen
  \/ \E p \in Proc : InitWaitDone(p)
  \/ \E e \in {1, 2}, q \in CacheQuestions : NextRequest(e, q)
  \/ \E e \in {1, 2}, r \in CacheReplies : UpstreamReply(e, r, 0)
  \/ \E m \in LoopAnswers : Line(m)
  \/ \E g \in 1..spawned : ChildExit(g)
  \/ Tick
  \/ Sweep

CacheSpec == CacheInit /\ [][CacheNext]_vars

(***************************************************************************)
(* SdkSpec: the server over the SDK client, under every upstream answer;   *)
(* the client settles connect, listTools and each callTool either way.     *)
(***************************************************************************)
\* the outcomes of a promise of the SDK client
SdkOutcomes ==
  {Resolved("sdk", "obj"), Resolved("sdk", "null"), Rejected("sdk", "boom")}

SdkInit ==
  /\ variant \in SdkVariants
  /\ apiKey \in BOOLEAN
  /\ mcpProcess = 0
  /\ mcpTools = <<>>
  /\ requestId = 0
  /\ pendingRequests = <<>>
  /\ calls = <<>>
  /\ timersFired = 0
  /\ spawned = 0
  /\ exited = {}
  /\ pc = [p \in Proc |-> IF p = 0 THEN "boot" ELSE "idle"]
  /\ aw = [p \in Proc |-> 0]
  /\ ex = [e \in Exch |-> NewExchange]
  /\ responseCache = <<>>
  /\ now = 0
  /\ budget = 0
  /\ ev = [type |-> "none", id |-> 0, ok |-> TRUE]

\* the app.listen callback
SdkListen ==
  /\ pc[0] = "boot"
  /\ Commit(initMCPClient(World, 0))
  /\ ev' = [type |-> "listen", id |-> 0, ok |-> TRUE]
  /\ UNCHANGED <<variant, apiKey, timersFired, exited, now, budget>>

\* mcpClient.connect settles
SdkConnected(p, ok) ==
  /\ pc[p] = "sdkConnect"
  /\ Commit(sdkAfterConnect(World, p, ok))
  /\ ev' = [type |-> "connect", id |-> p, ok |-> ok]
  /\ UNCHANGED <<variant, apiKey, timersFired, exited, now, budget>>

\* mcpClient.listTools settles
SdkToolsListed(p, o) ==
  /\ pc[p] = "sdkList"
  /\ Commit(sdkAfterListTools(World, p, o))
  /\ ev' = [type |-> "listTools", id |-> p, ok |-> o.ok]
  /\ UNCHANGED <<variant, apiKey, timersFired, exited, now, budget>>

\* a POST /chat arrives
SdkRequest(e, question) ==
  /\ pc[0] # "boot"
  /\ pc[e] = "idle"
  /\ Commit(sdkChatHandler(World, e, question))
  /\ ev' = [type |-> "request", id |-> e, ok |-> TRUE]
  /\ UNCHANGED <<variant, apiKey, timersFired, exited, now, budget>>

\* the upstream answers the fetch of exchange e
SdkUpstreamReply(e, r) ==
  /\ pc[e] \in {"fetchFirst", "fetchNext"}
  /\ budget + toolUseCount(r.content) <= MaxSdkRounds
  /\ Commit(sdkAfterFetch(World, e, r))
  /\ budget' = budget + toolUseCount(r.content)
  /\ ev' = [type |-> "fetch", id |-> e, ok |-> r.ok]
  /\ UNCHANGED <<variant, apiKey, timersFired, exited, now>>

\* mcpClient.callTool settles
SdkToolDone(e, o) ==
  /\ pc[e] = "sdkTool"
  /\ Commit(sdkAfterTool(World, e, o))
  /\ ev' = [type |-> "callTool", id |-> e, ok |-> o.ok]
  /\ UNCHANGED <<variant, apiKey, timersFired, exited, now, budget>>

\* an upstream that fails, answers in text, or asks for one tool
SdkReplies ==
  {FailedReply, [ok |-> TRUE, hasContent |-> FALSE, content |-> <<>>],
   Reply(<<>>), Reply(<<TextBlock(<<" ">>)>>),
   Reply(<<TextBlock(<<" ", "a">>), TextBlock(<<"b", " ">>)>>),
   Reply(<<ToolUseBlock("tu1")>>)}

SdkNext ==
  \/ SdkListen
  \/ \E p \in Proc, ok \in BOOLEAN : SdkConnected(p, ok)
  \/ \E p \in Proc, o \in SdkOutcomes : SdkToolsListed(p, o)
  \/ \E q \in Questions : SdkRequest(1, q)
  \/ \E r \in SdkReplies : SdkUpstreamReply(1, r)
  \/ \E o \in SdkOutcomes : SdkToolDone(1, o)

SdkSpec == SdkInit /\ [][SdkNext]_vars

(***************************************************************************)
(* DirectSpec: the server with in-process tools, under every upstream      *)
(* answer and a Salesforce connection whose login and queries settle       *)
(* either way.                                                             *)
(***************************************************************************)
DirectInit ==
  /\ variant \in DirectVariants
  /\ apiKey \in BOOLEAN
  /\ mcpProcess = 0
  /\ mcpTools = <<>>
  /\ requestId = 0
  /\ pendingRequests = <<>>
  /\ calls = <<>>
  /\ timersFired = 0
  /\ spawned = 0
  /\ exited = {}
  /\ pc = [p \in Proc |-> IF p = 0 THEN "boot" ELSE "idle"]
  /\ aw = [p \in Proc |-> 0]
  /\ ex = [e \in Exch |-> NewExchange]
  /\ responseCache = <<>>
  /\ now = 0
  /\ budget = 0
  /\ ev = [type |-> "none", id |-> 0, ok |-> TRUE]

\* the app.listen callback
DirectListen ==
  /\ pc[0] = "boot"
  /\ Commit(initSalesforceConnection(World, 0))
  /\ ev' = [type |-> "listen", id |-> 0, ok |-> TRUE]
  /\ UNCHANGED <<variant, apiKey, timersFired, exited, now, budget>>

\* sfConnection.login settles
SfLoginDone(p, ok) ==
  /\ pc[p] = "sfLogin"
  /\ Commit(directInitReturn(World, p, ok))
  /\ ev' = [type |-> "sfLogin", id |-> p, ok |-> ok]
  /\ UNCHANGED <<variant, apiKey, timersFired, exited, now, budget>>

\* a POST /chat arrives
DirectRequest(e, question) ==
  /\ pc[0] # "boot"
  /\ pc[e] = "idle"
  /\ Commit(directChatHandler(World, e, question))
  /\ ev' = [type |-> "request", id |-> e, ok |-> TRUE]
  /\ UNCHANGED <<variant, apiKey, timersFired, exited, now, budget>>

\* the upstream answers the fetch of exchange e
DirectUpstreamReply(e, r) ==
  /\ pc[e] \in {"fetchFirst", "fetchNext"}
  /\ Commit(IF pc[e] = "fetchFirst" THEN directAfterFetch(World, e, r)
                                    ELSE directAfterFollowUp(World, e, r))
  /\ ev' = [type |-> "fetch", id |-> e, ok |-> r.ok]
  /\ UNCHANGED <<variant, apiKey, timersFired, exited, now, budget>>

\* sfConnection.query settles
SfQueryDone(e, o) ==
  /\ pc[e] = "sfQuery"
  /\ Commit(directAfterQuery(World, e, o))
  /\ ev' = [type |-> "sfQuery", id |-> e, ok |-> o.ok]
  /\ UNCHANGED <<variant, apiKey, timersFired, exited, now, budget>>

\* the outcomes of sfConnection.query
QueryOutcomes == {Resolved("sf", "obj"), Rejected("sf", "boom")}

\* an upstream that fails, answers in text, or asks for tools
DirectReplies ==
  {FailedReply, [ok |-> TRUE, hasContent |-> FALSE, content |-> <<>>],
   Reply(<<>>), Reply(<<TextBlock(<<"a">>)>>),
   Reply(<<DirectToolUse("tu1", "salesforce_query_records")>>),
   Reply(<<TextBlock(<<"a">>), DirectToolUse("tu1", "salesforce_aggregate_query"),
           DirectToolUse("tu2", "salesforce_query_records")>>),
   Reply(<<DirectToolUse("tu1", "other")>>)}

DirectNext ==
  \/ DirectListen
  \/ \E p \in Proc, ok \in BOOLEAN : SfLoginDone(p, ok)
  \/ \E q \in Questions : DirectRequest(1, q)
  \/ \E q \in Questions : DirectRequest(2, q)
  \/ \E e \in {1, 2}, r \in DirectReplies : DirectUpstreamReply(e, r)
  \/ \E e \in {1, 2}, o \in QueryOutcomes : SfQueryDone(e, o)

DirectSpec == DirectInit /\ [][DirectNext]_vars

(***************************************************************************)
(* RaceSpec: requests that arrive at any time after the server listens,    *)
(* the start-up initialization still running or not, with a child that     *)
(* answers or stays silent and may exit, and an upstream that may ask for  *)
(* a tool.                                                                 *)
(***************************************************************************)
\* exchange e is the next POST /chat to arrive
RaceRequest(e, question) ==
  /\ \A f \in Exch : f < e => pc[f] # "idle"
  /\ Request(e, question)

RaceNext ==
  \/ Listen
  \/ \E p \in Proc : InitWaitDone(p)
  \/ \E e \in {1, 2} : RaceRequest(e, <<"leads">>)
  \/ \E e \in {1, 2}, r \in FewReplies : UpstreamReply(e, r, MaxRaceTools)
  \/ \E m \in PlainAnswers : Line(m)
  \/ Timeout
  \/ \E g \in 1..spawned : ChildExit(g)

RaceSpec == LoopInit /\ [][RaceNext]_vars

(***************************************************************************)
(* SpawnSpec: the spawning of children: requests that arrive at any time   *)
(* after the server listens, children that complete the handshake or not   *)
(* and exit at any time; the upstream asks for no tool.                    *)
(***************************************************************************)
SpawnNext ==
  \/ Listen
  \/ \E p \in Proc : InitWaitDone(p)
  \/ \E e \in {1, 2} : RaceRequest(e, <<"leads">>)
  \/ \E e \in {1, 2}, r \in TextReplies : UpstreamReply(e, r, 0)
  \/ \E m \in PlainAnswers : Line(m)
  \/ \E g \in 1..spawned : ChildExit(g)

SpawnSpec == LoopInit /\ [][SpawnNext]_vars

(***************************************************************************)
(* LiveSpec: one exchange from its arrival to its answer, with children    *)
(* that answer, answer late or again, or stay silent, the first of which   *)
(* may exit at any time.  Node runs the callback of every timer that was   *)
(* set, and the upstream answers every call made to it.                    *)
(***************************************************************************)
\* an answer to a call in the table, or to one that is no longer there
LateLines ==
  LoopAnswers
  \cup {Envelope(i, FALSE, "obj") : i \in (1..requestId) \ DOMAIN pendingRequests}

\* the upstream answers the fetch of the exchange
LiveUpstreamReply == \E r \in FewReplies : UpstreamReply(1, r, MaxToolCalls)

\* the 2 s timer of an initMCPServer fires
LiveInitWaitDone == \E p \in Proc : InitWaitDone(p)

LiveNext ==
  \/ Listen
  \/ LiveInitWaitDone
  \/ \E q \in Questions : Request(1, q)
  \/ LiveUpstreamReply
  \/ \E m \in LateLines : Line(m)
  \/ Timeout
  \/ ChildExit(1)

LiveSpec ==
  /\ Init /\ [][LiveNext]_vars
  /\ WF_vars(Timeout) /\ WF_vars(LiveInitWaitDone) /\ WF_vars(LiveUpstreamReply)

(***************************************************************************)
(* ResultSpec: every loop function of the repository, the capped ones of   *)
(* the hand-written servers and the one of the SDK server, each under its  *)
(* own events.                                                             *)
(***************************************************************************)
ResultInit == LoopInit \/ SdkInit

CappedStep == variant \in Variants /\ LoopNext

SdkStep == variant \in SdkVariants /\ SdkNext

ResultNext == CappedStep \/ SdkStep

ResultSpec == ResultInit /\ [][ResultNext]_vars

(***************************************************************************)
(* ToolSpec: the tool rounds of one exchange, with a child that answers a  *)
(* tools/call with a result, with an error, without a result, or not at    *)
(* all.                                                                    *)
(***************************************************************************)
ToolNext ==
  \/ Listen
  \/ \E p \in Proc : InitWaitDone(p)
  \/ LateRequest(1, <<"leads">>)
  \/ \E r \in Replies : UpstreamReply(1, r, MaxTurnTools)
  \/ \E m \in ToolAnswers : Line(m)
  \/ ToolTimeout

ToolSpec == LoopInit /\ [][ToolNext]_vars

(***************************************************************************)
(* SendSpec: one exchange whose tool calls meet every way a call can fail: *)
(* the child refuses it, does not answer it, or has exited before or       *)
(* while the call is made.                                                 *)
(***************************************************************************)
\* an upstream that fails, answers in text, or asks for one or two tools
SendReplies ==
  {FailedReply, Reply(<<TextBlock(<<"a">>)>>), Reply(<<ToolUseBlock("tu1")>>),
   Reply(<<TextBlock(<<"a">>), ToolUseBlock("tu1"), ToolUseBlock("tu2")>>)}

SendNext ==
  \/ Listen
  \/ \E p \in Proc : InitWaitDone(p)
  \/ LateRequest(1, <<"leads">>)
  \/ \E r \in SendReplies : UpstreamReply(1, r, MaxSendTools)
  \/ \E m \in LoopAnswers : Line(m)
  \/ ToolTimeout
  \/ \E g \in 1..spawned : ChildExit(g)

SendSpec == LoopInit /\ [][SendNext]_vars

(***************************************************************************)
(* MuxSpec: exchanges that run at the same time, each with a tool call on  *)
(* the one child; the child answers the calls in the table in any order.   *)
(***************************************************************************)
MuxNext ==
  \/ Listen
  \/ \E p \in Proc : InitWaitDone(p)
  \/ \E e \in Exch : LateRequest(e, <<"leads">>)
  \/ \E e \in Exch, r \in FewReplies : UpstreamReply(e, r, MaxMuxCalls)
  \/ \E m \in LoopAnswers : Line(m)
  \/ ToolTimeout

MuxSpec == LoopInit /\ [][MuxNext]_vars

(***************************************************************************)
(* TimerSpec: the calls of initMCPServer with a child that answers a call  *)
(* or not and may exit, and a timer that fires once armed: Node runs the   *)
(* callback of every setTimeout while the process lives.                   *)
(***************************************************************************)
TimerNext ==
  \/ Listen
  \/ \E p \in Proc : InitWaitDone(p)
  \/ \E q \in Questions : Request(1, q)
  \/ \E r \in TextReplies : UpstreamReply(1, r, 0)
  \/ \E m \in PlainAnswers : Line(m)
  \/ Timeout
  \/ \E g \in 1..spawned : ChildExit(g)

TimerSpec == Init /\ [][TimerNext]_vars /\ WF_vars(Timeout)

(***************************************************************************)
(* The properties.                                                         *)
(***************************************************************************)
\* what the program holds, apart from the record of the last event
progVars == <<mcpProcess, mcpTools, requestId, pendingRequests, calls, timersFired,
              spawned, exited, pc, aw, ex, responseCache>>

\* the calls a run of initMCPServer by each process can make
CallBound == 2 * (NumExch + 1)

\* the sources that settled call k, in the order they called resolve or reject
settledBy(k) == [i \in 1..Len(calls[k].settle) |-> calls[k].settle[i].by]

\* C1: every call's promise is settled exactly once, and once its timer has
\* fired exactly one of {the response line, the timeout} has taken effect:
\* resolve or reject was called once, by the line or by the timer.
C1_SettledOnceByResponseOrTimeout ==
  \A k \in 1..Len(calls) :
     /\ Len(calls[k].settle) <= 1
     /\ k <= timersFired =>
          /\ Len(calls[k].settle) = 1
          /\ calls[k].settle[1].by \in {"response", "error", "timeout"}

\* C2: the ids of the calls are strictly increasing in the order of the
\* calls, the first id is 1, and no id is given twice.
C2_IdsIncreasingNeverReused ==
  /\ Len(calls) > 0 => calls[1].id = 1
  /\ \A j, k \in 1..Len(calls) : j < k => calls[j].id < calls[k].id
  /\ \A k \in 1..Len(calls) : calls[k].id <= requestId

\* C2 witness: an id was assigned after a send that failed for want of a
\* child, after an entry was removed by a response and another by its timer,
\* and after the child was spawned again.
C2_Witness ==
  \E i, j, k \in 1..Len(calls) :
     /\ i < k /\ j < k
     /\ calls[i].written = 0
     /\ calls[j].settle # <<>> /\ calls[j].settle[1].by = "response"
     /\ \E t \in 1..Len(calls[i].settle) : calls[i].settle[t].by = "timeout"
     /\ calls[k].written = 2

\* C3: a line whose id is not in pendingRequests changes nothing: no promise
\* is settled, the table and every call stay as they were.
C3_UnknownIdIsNoOp ==
  [][(ev'.type = "line" /\ ~mapHas(pendingRequests, ev'.id))
       => UNCHANGED progVars]_vars

\* C3 witness: an envelope arrived for a call that had timed out, while
\* another call was in the table.
C3_Witness ==
  /\ ev.type = "line"
  /\ ev.id \in 1..Len(calls)
  /\ ~mapHas(pendingRequests, ev.id)
  /\ settledBy(ev.id) = <<"timeout">>
  /\ DOMAIN pendingRequests # {}

\* C4: every registered call is eventually settled and its entry eventually
\* out of the table.
C4_EveryCallSettledAndRemoved ==
  \A k \in 1..CallBound :
     (Len(calls) >= k)
       ~> (/\ Len(calls) >= k
           /\ calls[k].settle # <<>>
           /\ ~mapHas(pendingRequests, calls[k].id))

\* C4 witness: a call written to a child that exited without answering was
\* rejected by its timer, and its entry removed.
C4_Witness ==
  \E k \in 1..Len(calls) :
     /\ calls[k].written # 0
     /\ calls[k].written \in exited
     /\ settledBy(k) = <<"timeout">>
     /\ ~mapHas(pendingRequests, calls[k].id)

\* C5: a run of the capped loop makes at most maxIterations + 1 upstream
\* calls, and after the answer to the last of them it has returned.
C5_AtMostCapPlusOneCalls ==
  \A e \in Exch :
     /\ ex[e].nUpstream <= maxIterations(variant) + 1
     /\ (ex[e].nUpstream = maxIterations(variant) + 1 /\ pc[e] # "fetchNext")
          => pc[e] = "done"

\* C5 witness: the upstream of the loop with cap 5 asked for a tool in all
\* six of its answers, and the run returned.
C5_Witness ==
  /\ variant = "MCP"
  /\ ex[1].nUpstream = maxIterationsMCP + 1
  /\ pc[1] = "done"
  /\ someToolUse(ex[1].data.content)

\* the text blocks of a response, joined by one space and trimmed
spacedAndTrimmed(content) ==
  LET texts == SelectSeq(content, isText)
  IN trim(join([i \in 1..Len(texts) |-> texts[i].text], <<" ">>))

\* the text blocks of a response, one after the other
concatenated(content) ==
  LET texts == SelectSeq(content, isText)
  IN join([i \in 1..Len(texts) |-> texts[i].text], <<>>)

\* the first upstream call of exchange e is answered with a body without tool_use
firstAnswerWithoutTools(e) ==
  /\ pc[e] = "fetchFirst"
  /\ pc'[e] # "fetchFirst"
  /\ ex'[e].data.hasContent
  /\ ~someToolUse(ex'[e].data.content)

\* C6, as the code has it: when the first response has no tool_use block the
\* loop returns after that one upstream call, without a call to the child,
\* and its result is the text blocks joined by one space and trimmed, or the
\* fixed apology when that is empty.
C6_NoToolsOneCallTrimmedText ==
  [][\A e \in Exch :
       firstAnswerWithoutTools(e) =>
         /\ pc'[e] = "done"
         /\ ex'[e].nUpstream = 1
         /\ calls' = calls
         /\ ex'[e].http.status = 200
         /\ ex'[e].http.response =
              IF spacedAndTrimmed(ex'[e].data.content) = <<>>
              THEN fallbackText(variant)
              ELSE spacedAndTrimmed(ex'[e].data.content)]_vars

\* C6 as stated: the result is the text blocks concatenated verbatim.
C6_NoToolsVerbatimText ==
  [][\A e \in Exch :
       firstAnswerWithoutTools(e) =>
         /\ pc'[e] = "done"
         /\ ex'[e].nUpstream = 1
         /\ calls' = calls
         /\ ex'[e].http.response = concatenated(ex'[e].data.content)]_vars

\* C6 witness: two text blocks with outer whitespace were the first answer.
C6_Witness ==
  /\ pc[1] = "done"
  /\ ex[1].nUpstream = 1
  /\ ex[1].data.content = <<TextBlock(<<" ", "a">>), TextBlock(<<"b", " ">>)>>
  /\ ex[1].http.response = <<"a", " ", "b">>

\* the tools/call k fails in this step, by its timer or by an error envelope
toolFails(k) ==
  /\ calls[k].method = "tools/call"
  /\ calls[k].settle = <<>>
  /\ calls'[k].settle # <<>>
  /\ calls'[k].settle[1].by \in {"timeout", "error"}

\* the block the failure of call k must leave in the conversation
errorBlock(k) ==
  [type |-> "tool_result", tool_use_id |-> calls[k].params, is_error |-> TRUE,
   content |-> calls'[k].settle[1].val]

\* C7: when a tools/call fails the exchange goes on: one block is added to
\* the tool results, with the tool_use id, is_error and the message, and the
\* loop goes on to the next tool of the response or, after the last one, makes
\* the next upstream call with the results as the last turn.
C7_ToolFailureIsAbsorbed ==
  [][\A k \in 1..Len(calls) :
       toolFails(k) =>
         LET e == calls[k].owner
             n == Len(ex[e].toolResults)
         IN /\ Len(ex'[e].toolResults) > n
            /\ SubSeq(ex'[e].toolResults, 1, n + 1)
                 = Append(ex[e].toolResults, errorBlock(k))
            /\ ex'[e].sent = 0
            /\ \/ /\ pc'[e] = "tool"
                  /\ aw'[e] > k
                  /\ ex'[e].nUpstream = ex[e].nUpstream
               \/ /\ pc'[e] = "fetchNext"
                  /\ ex'[e].nUpstream = ex[e].nUpstream + 1
                  /\ ex'[e].messages =
                       Append(ex[e].messages,
                              [role |-> "user", content |-> ex'[e].toolResults])]_vars

\* C7 witness: an exchange ended with an answer after one tool had timed
\* out and another had been refused by the child.
C7_Witness ==
  /\ pc[1] = "done"
  /\ ex[1].http.status = 200
  /\ ex[1].http.response = <<"a">>
  /\ \E i, j \in 2..Len(ex[1].messages) :
        /\ ex[1].messages[i].role = "user"
        /\ ex[1].messages[j].role = "user"
        /\ \E b \in 1..Len(ex[1].messages[i].content) :
              /\ ex[1].messages[i].content[b].is_error
              /\ ex[1].messages[i].content[b].content = "MCP request timeout"
        /\ \E b \in 1..Len(ex[1].messages[j].content) :
              /\ ex[1].messages[j].content[b].is_error
              /\ ex[1].messages[j].content[b].content = "boom"

\* C8: after an upstream answer with a non-success status the exchange has
\* answered 500 with an error and a fallback.
C8_UpstreamFailureAnswers500 ==
  (ev.type = "fetch" /\ ~ev.ok) =>
     /\ ex[ev.id].http.status = 500
     /\ ex[ev.id].http.error # ""
     /\ ex[ev.id].http.fallback # <<>>

\* C9: a tools/call made while there is no child leaves no tool_result in the
\* conversation, and the exchange does not end with a 200.
C9_UnavailableIsSurfaced ==
  \A k \in 1..Len(calls) :
     (calls[k].method = "tools/call" /\ calls[k].written = 0) =>
        LET e == calls[k].owner
        IN /\ \A b \in 1..Len(ex[e].toolResults) :
                 ex[e].toolResults[b].content # "MCP process not available"
           /\ pc[e] = "done" => ex[e].http.status # 200

\* C10: a promise is settled by a response envelope, by an error envelope or
\* by its timer, and by nothing else.
C10_ThreeOutcomesOnly ==
  \A k \in 1..Len(calls) :
     calls[k].settle # <<>> =>
        calls[k].settle[1].by \in {"response", "error", "timeout"}

\* the text s holds the text q
containsSeq(s, q) ==
  \E i \in 1..(Len(s) + 1) : SubSeq(s, i, i + Len(q) - 1) = q

\* a POST /chat with a question arrives at exchange e, and no key is configured
requestWithoutKey(e) ==
  /\ pc[e] = "idle"
  /\ pc'[e] # "idle"
  /\ ~apiKey
  /\ ex'[e].question # <<>>

\* C11: without a key a POST /chat with a question is answered in mode
\* 'basic' with a text that echoes the question, and in that exchange no
\* upstream call is made, nothing is sent to the child and no child is spawned.
C11_NoKeyAnswersBasic ==
  [][\A e \in Exch :
       requestWithoutKey(e) =>
         /\ pc'[e] = "done"
         /\ ex'[e].http.status = 200
         /\ ex'[e].http.mode = "basic"
         /\ containsSeq(ex'[e].http.response, ex'[e].question)
         /\ ex'[e].nUpstream = 0
         /\ calls' = calls
         /\ requestId' = requestId
         /\ spawned' = spawned
         /\ mcpProcess' = mcpProcess]_vars

\* C11 witness: a question was answered in basic mode after the child of the
\* start-up had exited.
C11_Witness ==
  /\ ~apiKey
  /\ pc[1] = "done"
  /\ ex[1].http.mode = "basic"
  /\ ex[1].question = <<"leads">>
  /\ mcpProcess = 0
  /\ spawned = 1

\* a POST /chat arrives at exchange e with a question whose key is in the
\* cache, stored less than CACHE_TTL ago
repeatedWithinTTL(e) ==
  /\ variant = "Optimized"
  /\ apiKey
  /\ pc[e] = "idle"
  /\ pc'[e] # "idle"
  /\ ex'[e].question # <<>>
  /\ ~isSimpleQuery(ex'[e].question)
  /\ \E key \in DOMAIN responseCache :
        /\ key = trim(toLowerCase(ex'[e].question))
        /\ now - responseCache[key].timestamp < CACHE_TTL

C13_CacheHoldsNoFailure ==
  \A key \in DOMAIN responseCache :
     /\ ~includes(responseCache[key].response, "Error")
     /\ responseCache[key].response # fallbackText(variant)

\* a POST /chat without a question arrives at exchange e
requestWithoutQuestion(e) ==
  /\ pc[e] = "idle"
  /\ pc'[e] # "idle"
  /\ ex'[e].question = <<>>

\* C16: a POST /chat without a question is answered 400 and nothing else
\* happens: no upstream call, no call to the child, no spawn, the cache and
\* the other exchanges stay as they were.
C16_MissingQuestionAnswers400 ==
  [][\A e \in Exch :
       requestWithoutQuestion(e) =>
         /\ pc'[e] = "done"
         /\ ex'[e].http = [NoResponse EXCEPT !.status = 400,
                                              !.error = "Pregunta requerida"]
         /\ ex'[e].sent = 1
         /\ ex'[e].nUpstream = 0
         /\ ex'[e].messages = <<>>
         /\ \A o \in Proc \ {e} : pc'[o] = pc[o] /\ aw'[o] = aw[o]
         /\ \A o \in Exch \ {e} : ex'[o] = ex[o]
         /\ UNCHANGED <<mcpProcess, mcpTools, requestId, pendingRequests, calls,
                        timersFired, spawned, exited, responseCache>>]_vars

\* C16 witness: a request without a question was answered 400 while the
\* cache held an entry and there was no child.
C16_Witness ==
  /\ pc[2] = "done"
  /\ ex[2].http.status = 400
  /\ DOMAIN responseCache # {}
  /\ mcpProcess = 0

\* C14: the loop of the SDK servers ends by itself: it makes fewer upstream
\* calls than an upstream that asks for a tool in every answer asks tools for.
C14_SdkLoopIsBounded ==
  variant \in SdkVariants => \A e \in Exch : ex[e].nUpstream <= MaxSdkRounds

\* the exchange e awaits the call with id i
awaitsId(e, i) ==
  /\ aw[e] # 0
  /\ calls[aw[e]].id = i
  /\ calls[aw[e]].method = "tools/call"

\* the tool_result that the envelope which settled call k becomes
ownBlock(k) ==
  LET o == calls'[k].settle[1]
  IN [type |-> "tool_result", tool_use_id |-> calls[k].params,
      is_error |-> ~(o.ok /\ o.val # "null"),
      content |-> IF o.ok /\ o.val = "null" THEN "TypeError" ELSE o.val]

\* C15: a line settles only the call whose id it carries: no other call's
\* promise changes, an exchange that does not await that id stays as it
\* was, and the exchange that awaits it gets the tool result of its own
\* tool_use from that line.
C15_OnlyOwnIdSettles ==
  [][ev'.type = "line" =>
       /\ \A k \in 1..Len(calls) :
             calls'[k].settle # calls[k].settle => calls[k].id = ev'.id
       /\ \A e \in Exch :
             IF awaitsId(e, ev'.id)
             THEN SubSeq(ex'[e].toolResults, 1, Len(ex[e].toolResults) + 1)
                    = Append(ex[e].toolResults, ownBlock(aw[e]))
             ELSE ex'[e] = ex[e] /\ pc'[e] = pc[e] /\ aw'[e] = aw[e]]_vars

\* C15 witness: two exchanges had a tool call in the table at the same
\* time, and the child answered the later call first.
C15_Witness ==
  \E j, k \in 1..Len(calls) :
     /\ j < k
     /\ calls[j].method = "tools/call" /\ calls[k].method = "tools/call"
     /\ calls[j].owner # calls[k].owner
     /\ settledBy(j) = <<"response">> /\ settledBy(k) = <<"error">>
     /\ ev.type = "line" /\ ev.id = calls[j].id
     /\ ex[calls[j].owner].toolResults[1].content = "obj"
     /\ ex[calls[k].owner].toolResults[1].content = "boom"

\* the step resolves the tools/list call that initMCPServer, run by p, awaits
toolListingStep(p) ==
  /\ pc[p] = "initList"
  /\ aw[p] # 0
  /\ calls[aw[p]].method = "tools/list"
  /\ ev'.type = "line" /\ ev'.ok /\ ev'.id = calls[aw[p]].id
  /\ spawned > 0

\* C17: mcpTools changes only in the step of initMCPServer that receives
\* the answer to its tools/list call; a request, an upstream reply, any
\* other line, a timeout and a child exit leave it as it is.
C17_ToolsWrittenByListingOnly ==
  [][mcpTools' # mcpTools => \E p \in Proc : toolListingStep(p)]_vars

\* C17 witness: the tools were discovered, and afterwards the child has
\* exited and an exchange has been answered, with the tools still there.
C17_Witness ==
  /\ mcpTools # <<>>
  /\ exited # {}
  /\ \E e \in Exch : pc[e] = "done" /\ ex[e].http.status = 200
                        /\ ex[e].nUpstream > 0

\* the fetch that ends in this step leaves the loop of e at the cap with
\* tool_use blocks in the response
capReachedWithTools(e) ==
  /\ pc[e] = "fetchNext"
  /\ ev'.type = "fetch" /\ ev'.id = e /\ ev'.ok
  /\ ex'[e].iterationCount = maxIterations(variant)
  /\ ex'[e].data.hasContent
  /\ someToolUse(ex'[e].data.content)

\* the text a loop returns for the response content c
textOrFallback(c) ==
  IF finalTextOf(c) = <<>> THEN fallbackText(variant) ELSE finalTextOf(c)

\* C18: when a response that still asks for tools arrives with the
\* iteration counter at maxIterations, the loop ends in that step: no tool
\* is called, no upstream call follows, and the exchange is answered 200
\* in the normal mode with the text of that response (the fixed fallback
\* when it has none), not with an error.
C18_CapEndsLoopWithoutTools ==
  [][\A e \in Exch :
       capReachedWithTools(e) =>
         /\ pc'[e] = "done"
         /\ calls' = calls
         /\ ex'[e].nUpstream = ex[e].nUpstream
         /\ ex'[e].messages = ex[e].messages
         /\ ex'[e].http.status = 200
         /\ ex'[e].http.mode = chatMode(variant)
         /\ ex'[e].http.error = ""
         /\ ex'[e].http.response = textOrFallback(ex'[e].data.content)]_vars

\* C18 witness: a loop ended at the cap on a response with text and a
\* tool_use block, and answered with that text.
C18_Witness ==
  \E e \in Exch :
     /\ pc[e] = "done"
     /\ ev.type = "fetch" /\ ev.ok
     /\ ex[e].iterationCount = maxIterations(variant)
     /\ someToolUse(ex[e].data.content)
     /\ finalTextOf(ex[e].data.content) # <<>>
     /\ ex[e].http.response = finalTextOf(ex[e].data.content)

\* the loop of e has just completed on an upstream response with content
loopCompleted(e) ==
  /\ pc[e] = "done"
  /\ ev.type = "fetch" /\ ev.id = e /\ ev.ok
  /\ ex[e].data.hasContent

\* the text blocks of c joined as the loop function of the variant joins
\* them: with single spaces, and trimmed by the capped loops
joinedText(c) ==
  IF variant \in SdkVariants THEN sdkFinalTextOf(c) ELSE finalTextOf(c)

fixedFallback ==
  IF variant \in SdkVariants THEN sdkFallbackText ELSE fallbackText(variant)

\* C19: a completed loop answers with the joined text of the final
\* upstream response, or with the fixed fallback when that joined text is
\* empty; no loop function that has called the upstream answers 200 with
\* an empty string.
C19_ResultIsTextOrFallback ==
  \A e \in Exch :
     /\ loopCompleted(e) =>
           /\ ex[e].http.status = 200
           /\ ex[e].http.response =
                 IF joinedText(ex[e].data.content) = <<>>
                 THEN fixedFallback
                 ELSE joinedText(ex[e].data.content)
     /\ (pc[e] = "done" /\ ex[e].http.status = 200 /\ ex[e].nUpstream > 0)
           => ex[e].http.response # <<>>

\* C19 witness: a capped loop or the SDK loop completed on a response
\* without text after a tool round, and answered with the fallback.
C19_Witness ==
  \E e \in Exch :
     /\ loopCompleted(e)
     /\ ex[e].nUpstream > 1
     /\ joinedText(ex[e].data.content) = <<>>
     /\ ex[e].http.response = fixedFallback

\* the tools/call entries of exchange e, in the order they were made
toolCallsOf(e) ==
  SelectSeq([k \in 1..Len(calls) |-> k],
            LAMBDA k : calls[k].owner = e /\ calls[k].method = "tools/call")

\* the tool_use blocks of a content, in order
toolUsesOf(c) == SelectSeq(c, isToolUse)

RECURSIVE toolTurnsBefore(_, _)
\* the number of tool_result blocks in the user turns of e before turn i
toolTurnsBefore(e, i) ==
  IF i <= 2 THEN 0
  ELSE toolTurnsBefore(e, i - 1)
       + (IF ex[e].messages[i - 1].role = "user" /\ i - 1 > 1
          THEN Len(ex[e].messages[i - 1].content) ELSE 0)

\* the invocation behind call k failed: the promise was rejected (error
\* envelope, timeout, child unavailable) or resolved without a result
invocationFailed(k) ==
  ~(calls[k].settle[1].ok /\ calls[k].settle[1].val # "null")

\* C20: every user turn the loop appends answers the assistant turn before
\* it block by block: one tool_result per tool_use of that turn, in the
\* same order, carrying that tool_use's id, flagged is_error exactly when
\* its invocation failed; text blocks of the turn have no counterpart.
C20_OneResultPerToolUse ==
  \A e \in Exch :
    \A i \in 2..Len(ex[e].messages) :
      ex[e].messages[i].role = "user" =>
        LET uses == toolUsesOf(ex[e].messages[i - 1].content)
            res == ex[e].messages[i].content
            base == toolTurnsBefore(e, i)
        IN /\ ex[e].messages[i - 1].role = "assistant"
           /\ Len(res) = Len(uses)
           /\ base + Len(res) <= Len(toolCallsOf(e))
           /\ \A j \in 1..Len(res) :
                 LET k == toolCallsOf(e)[base + j]
                 IN /\ res[j].type = "tool_result"
                    /\ res[j].tool_use_id = uses[j].id
                    /\ calls[k].params = uses[j].id
                    /\ calls[k].settle # <<>>
                    /\ res[j].is_error = invocationFailed(k)

\* C20 witness: a turn with a text block and two tool_use blocks was
\* answered by two tool results, the first of a failed invocation and the
\* second of a successful one.
C20_Witness ==
  \E e \in Exch :
    \E i \in 2..Len(ex[e].messages) :
      /\ ex[e].messages[i].role = "user"
      /\ \E b \in 1..Len(ex[e].messages[i - 1].content) :
            isText(ex[e].messages[i - 1].content[b])
      /\ Len(ex[e].messages[i].content) = 2
      /\ ex[e].messages[i].content[1].is_error
      /\ ex[e].messages[i].content[1].content = "TypeError"
      /\ ~ex[e].messages[i].content[2].is_error
      /\ i > 3

\* the role of the i-th turn of a conversation that alternates from a user turn
roleAt(i) == IF i % 2 = 1 THEN "user" ELSE "assistant"

\* s is an initial part of t
isPrefix(s, t) == Len(s) <= Len(t) /\ SubSeq(t, 1, Len(s)) = s

\* the conversation of e is well formed: the question first, then
\* assistant and user turns in alternation
conversationShape(e) ==
  LET m == ex[e].messages
  IN m # <<>> =>
       /\ m[1] = [role |-> "user", content |-> <<QuestionBlock(ex[e].question)>>]
       /\ \A i \in 1..Len(m) : m[i].role = roleAt(i)
       /\ pc[e] \in {"fetchFirst", "fetchNext"} =>
             /\ Len(m) = 2 * (ex[e].nUpstream - 1) + 1
             /\ m[Len(m)].role = "user"

\* a step keeps the turns the conversation of e has, and a turn it adds
\* after a response is that response's content
conversationGrows(e) ==
  LET m == ex[e].messages
      n == ex'[e].messages
  IN m # <<>> =>
       /\ isPrefix(m, n)
       /\ Len(n) <= Len(m) + 2
       /\ (Len(n) > Len(m) /\ ev'.type = "fetch") =>
             n[Len(m) + 1] = [role |-> "assistant", content |-> ex'[e].data.content]
       /\ (Len(n) > Len(m) /\ ev'.type # "fetch") =>
             /\ Len(n) = Len(m) + 1
             /\ n[Len(n)] = [role |-> "user", content |-> ex'[e].toolResults]

\* C21: the conversation of an exchange starts as the one user turn with
\* the question, is only ever extended (an assistant turn with the raw
\* response content, then a user turn with the tool results), and has
\* 2(k-1)+1 alternating turns ending in a user turn while the k-th
\* upstream call is under way.
C21_ConversationOnlyGrows ==
  /\ [](\A e \in Exch : conversationShape(e))
  /\ [][\A e \in Exch : conversationGrows(e)]_vars

\* C21 witness: the third upstream call of an exchange is under way with a
\* conversation of five turns.
C21_Witness ==
  \E e \in Exch :
     /\ pc[e] = "fetchNext"
     /\ ex[e].nUpstream = 3
     /\ Len(ex[e].messages) = 5
     /\ ex[e].messages[5].content # <<>>

\* the number of tools/call messages exchange e has asked for in cs
toolCallCount(cs, e) ==
  Cardinality({k \in 1..Len(cs) : cs[k].owner = e /\ cs[k].method = "tools/call"})

\* C22: the step in which an upstream call of an exchange returns a
\* non-success status ends that exchange without a new upstream call and
\* without a tools/call, and an exchange that has ended makes neither
\* afterwards.
C22_UpstreamFailureIsNotRetried ==
  [][\A e \in Exch :
       /\ (pc[e] \in {"fetchFirst", "fetchNext"}
            /\ ev'.type = "fetch" /\ ev'.id = e /\ ~ev'.ok)
           => /\ pc'[e] = "done"
              /\ ex'[e].nUpstream = ex[e].nUpstream
              /\ calls' = calls
       /\ pc[e] = "done"
           => /\ pc'[e] = "done"
              /\ ex'[e].nUpstream = ex[e].nUpstream
              /\ toolCallCount(calls', e) = toolCallCount(calls, e)]_vars

\* C22 witness: the follow-up call of an exchange has just failed after a
\* tool round, and the exchange has ended.
C22_Witness ==
  \E e \in Exch :
     /\ pc[e] = "done"
     /\ ev.type = "fetch" /\ ev.id = e /\ ~ev.ok
     /\ ex[e].nUpstream = 2
     /\ Len(ex[e].messages) = 3

RECURSIVE usesInTurns(_, _)
\* the tool_use blocks in the assistant turns among the first i turns of m
usesInTurns(m, i) ==
  IF i = 0 THEN 0
  ELSE usesInTurns(m, i - 1)
       + (IF m[i].role = "assistant" THEN Len(toolUsesOf(m[i].content)) ELSE 0)

\* the tool_use blocks the loop of e has taken up so far: those of the
\* turns already answered, and those of the current turn up to the item
\* the for loop stands at
usesTakenUp(e) ==
  LET m == ex[e].messages
  IN IF m = <<>> THEN 0
     ELSE IF m[Len(m)].role = "assistant"
          THEN usesInTurns(m, Len(m) - 1)
               + Len(toolUsesOf(SubSeq(m[Len(m)].content, 1, ex[e].idx)))
          ELSE usesInTurns(m, Len(m))

\* C23: an exchange has made exactly one tools/call per tool_use block its
\* loop has taken up, whatever became of the calls; every call has an id
\* of its own and was written at most once, to the child of its time.
C23_OneCallPerToolUse ==
  /\ \A e \in Exch : toolCallCount(calls, e) = usesTakenUp(e)
  /\ \A j, k \in 1..Len(calls) : j # k => calls[j].id # calls[k].id
  /\ \A k \in 1..Len(calls) :
        calls[k].written = 0 <=>
          (calls[k].settle # <<>> /\ calls[k].settle[1].by = "unavailable")

\* C23 witness: of the two tools of one response the first was refused by
\* the child and the second could not be sent, and the exchange went on
\* to its next upstream call with two calls made.
C23_Witness ==
  \E e \in Exch :
     /\ toolCallCount(calls, e) = 2
     /\ pc[e] = "fetchNext"
     /\ \E j, k \in 1..Len(calls) :
           /\ j < k
           /\ calls[j].owner = e /\ calls[k].owner = e
           /\ settledBy(j) = <<"error">>
           /\ settledBy(k) = <<"unavailable">>

\* the calls made in this step
newCalls == (Len(calls) + 1)..Len(calls')

\* the caller of the new call k has the failure in hand at the end of the
\* step: the tool loop has pushed its block, the start-up has given up
callerHasFailure(k) ==
  LET p == calls'[k].owner
  IN /\ aw'[p] # k
     /\ IF calls'[k].method = "tools/call"
        THEN \E i \in 1..Len(ex'[p].toolResults) :
               ex'[p].toolResults[i] =
                 [type |-> "tool_result", tool_use_id |-> calls'[k].params,
                  is_error |-> TRUE, content |-> "MCP process not available"]
        ELSE pc'[p] = "done"

\* C24: a sendMCPMessage made while mcpProcess is null writes to no child
\* and is rejected with 'MCP process not available' in the step that makes
\* it, in which its caller goes on with the failure; no timer has to fire.
C24_UnavailableFailsAtOnce ==
  [][\A k \in newCalls :
       IF mcpProcess = 0
       THEN /\ calls'[k].written = 0
            /\ calls'[k].settle = <<Rejected("unavailable", "MCP process not available")>>
            /\ callerHasFailure(k)
            /\ timersFired' < k
       ELSE /\ calls'[k].written = mcpProcess
            /\ calls'[k].settle = <<>>]_vars

\* a call of the given method was made after the child had exited and was
\* rejected before its timer fired
rejectedUnsent(method) ==
  \E k \in 1..Len(calls) :
     /\ calls[k].method = method
     /\ settledBy(k) = <<"unavailable">>
     /\ calls[k].written = 0
     /\ timersFired < k

\* C24 witness: a tool call was made after the child had exited, was
\* rejected at once, and the exchange has gone on to its next upstream
\* call.
C24_Witness ==
  /\ rejectedUnsent("tools/call")
  /\ exited # {}
  /\ \E e \in Exch : pc[e] = "fetchNext"

\* the same for the first call of the start-up
C24_WitnessStartUp == rejectedUnsent("initialize") /\ exited # {}

\* the step is a line that JSON.parse rejects
unparsedLine == ev'.type = "line" /\ ~ev'.ok

\* C25: a line that is not JSON changes nothing (no promise is settled,
\* the table and every call, conversation and exchange stay as they were),
\* and the envelope that follows it for a call in the table reaches that
\* call's resolve or reject and removes its entry as usual.
C25_UnparsedLineIsDropped ==
  [][/\ unparsedLine => UNCHANGED progVars
     /\ (ev.type = "line" /\ ~ev.ok /\ ev'.type = "line" /\ ev'.ok
          /\ mapHas(pendingRequests, ev'.id))
        => /\ Len(calls'[pendingRequests[ev'.id]].settle)
                = Len(calls[pendingRequests[ev'.id]].settle) + 1
           /\ ~mapHas(pendingRequests', ev'.id)]_vars

\* C25 witness: free text arrived while a call was in the table, and the
\* call is still there, unsettled.
C25_Witness ==
  /\ ev.type = "line" /\ ~ev.ok
  /\ \E i \in DOMAIN pendingRequests : calls[pendingRequests[i]].settle = <<>>

\* the step is an envelope whose id is in the table; k is the call it is for
matchingEnvelope(k) ==
  /\ ev'.type = "line" /\ ev'.ok /\ ev'.id # 0
  /\ mapHas(pendingRequests, ev'.id)
  /\ pendingRequests[ev'.id] = k

\* the envelope that the step has matched to call k
envelopeOf(k) == calls'[k].answer[Len(calls'[k].answer)]

\* the message of an error: 'MCP error' stands in for a missing one
messageOf(v) == IF v = "" THEN "MCP error" ELSE v

\* the outcome of the promise of call k after the step
outcomeOf(k) == calls'[k].settle[1]

\* C26: an envelope for an id in the table removes the entry in its step
\* and decides the call: with an error field the call ends rejected with
\* the error's message ('MCP error' when the error has none), without one
\* it ends resolved with the result.
C26_EnvelopeDecidesTheCall ==
  [][\A k \in 1..Len(calls) :
       matchingEnvelope(k) =>
         /\ ~mapHas(pendingRequests', ev'.id)
         /\ Len(calls'[k].answer) = Len(calls[k].answer) + 1
         /\ envelopeOf(k).id = ev'.id
         /\ IF envelopeOf(k).error
            THEN ~outcomeOf(k).ok /\ outcomeOf(k).val = messageOf(envelopeOf(k).val)
            ELSE outcomeOf(k).ok /\ outcomeOf(k).val = envelopeOf(k).val]_vars

\* the places of a function that is inside initMCPServer
InitPlaces == {"initWait", "initHandshake", "initList"}

\* a POST /chat whose handler reaches the test of mcpProcess arrives at e
requestReachesChildTest(e) ==
  /\ pc[e] = "idle" /\ pc'[e] # "idle"
  /\ ~questionMissing(ex'[e].question)
  /\ ~keyMissing
  /\ ~(variant = "Optimized" /\ isSimpleQuery(ex'[e].question))
  /\ ~(variant = "Optimized" /\ cacheHit(World, cacheKeyOf(ex'[e].question)))

\* initMCPServer, run by exchange e, returns false in this step: the call it
\* awaits is rejected, the tools/list answer has no result, or the child
\* has exited when it comes to send
initFails(e) ==
  /\ pc[e] \in InitPlaces
  /\ pc'[e] \notin InitPlaces
  /\ \/ pc[e] = "initWait" /\ mcpProcess = 0
     \/ /\ pc[e] = "initHandshake" /\ aw[e] # 0
        /\ (~calls'[aw[e]].settle[1].ok \/ mcpProcess = 0)
     \/ /\ pc[e] = "initList" /\ aw[e] # 0
        /\ (~calls'[aw[e]].settle[1].ok \/ calls'[aw[e]].settle[1].val = "null")

\* C27: a POST /chat that finds mcpProcess null spawns the child and runs
\* initMCPServer first, with no upstream call and no tools/call made until
\* it has returned; when it returns false the exchange is answered with
\* mode 'error' and has made neither.
C27_InitFirstAndErrorOnFailure ==
  [][\A e \in Exch :
       /\ (requestReachesChildTest(e) /\ mcpProcess = 0)
           => /\ pc'[e] = "initWait"
              /\ spawned' = spawned + 1 /\ mcpProcess' = spawned'
              /\ calls' = calls
              /\ ex'[e].nUpstream = 0
       /\ pc[e] \in InitPlaces
           => ex[e].nUpstream = 0 /\ toolCallCount(calls, e) = 0
       /\ initFails(e)
           => /\ pc'[e] = "done"
              /\ ex'[e].http.status = 200 /\ ex'[e].http.mode = "error"
              /\ ex'[e].nUpstream = 0
              /\ toolCallCount(calls', e) = 0]_vars

\* C27 witness: an exchange found no child, spawned one, and was answered
\* with mode 'error' after the tools/list call of its initMCPServer failed.
C27_Witness ==
  \E e \in Exch :
     /\ pc[e] = "done"
     /\ ex[e].http.mode = "error"
     /\ spawned = 2
     /\ \E k \in 1..Len(calls) :
           /\ calls[k].owner = e /\ calls[k].method = "tools/list"
           /\ calls[k].settle # <<>> /\ ~calls[k].settle[1].ok

\* a POST /chat arrives at exchange e and its handler reaches the lookup
\* of the key of its question
lookupBy(e) ==
  /\ variant = "Optimized"
  /\ pc[e] = "idle" /\ pc'[e] # "idle"
  /\ ~questionMissing(ex'[e].question)
  /\ ~keyMissing
  /\ ~isSimpleQuery(ex'[e].question)

\* the key the lookup of e is for
lookupKey(e) == cacheKeyOf(ex'[e].question)

\* the entry of key is in the cache and was stored CACHE_TTL or longer ago
expiredEntry(key) ==
  /\ mapHas(responseCache, key)
  /\ now - responseCache[key].timestamp >= CACHE_TTL

\* C28: a lookup answers from the cache only with an entry younger than
\* CACHE_TTL; when the entry of the key is CACHE_TTL old or older the
\* lookup is a miss and the exchange goes on towards the loop function
\* (through initMCPServer when there is no child).
C28_ExpiredEntryIsAMiss ==
  [][\A e \in Exch :
       lookupBy(e) =>
         /\ ex'[e].http.mode = "cached" =>
               /\ mapHas(responseCache, lookupKey(e))
               /\ now - responseCache[lookupKey(e)].timestamp < CACHE_TTL
               /\ ex'[e].http.response = responseCache[lookupKey(e)].response
         /\ expiredEntry(lookupKey(e)) =>
               /\ ex'[e].sent = 0
               /\ IF mcpProcess = 0
                  THEN pc'[e] = "initWait" /\ spawned' = spawned + 1
                  ELSE pc'[e] = "fetchFirst" /\ ex'[e].nUpstream = 1]_vars

\* C28 witness: a question was asked again exactly CACHE_TTL after its
\* answer was stored, and the exchange is at its first upstream call.
C28_Witness ==
  \E e \in Exch :
     /\ ev.type = "request" /\ ev.id = e
     /\ pc[e] = "fetchFirst"
     /\ mapHas(responseCache, cacheKeyOf(ex[e].question))
     /\ now - responseCache[cacheKeyOf(ex[e].question)].timestamp = CACHE_TTL

\* C29: a lookup that finds the entry of its key past its TTL removes the
\* entry, so that the key is absent after the read.
C29_ExpiredEntryIsRemovedOnRead ==
  [][\A e \in Exch :
       (lookupBy(e) /\ expiredEntry(lookupKey(e)))
         => ~mapHas(responseCache', lookupKey(e))]_vars

\* C30: a run of the sweep deletes the entries older than CACHE_TTL, keeps
\* the others as they are, and changes nothing but the cache.
C30_SweepRemovesOldEntriesOnly ==
  [][ev'.type = "sweep" =>
       /\ DOMAIN responseCache' =
            {k \in DOMAIN responseCache : now - responseCache[k].timestamp <= CACHE_TTL}
       /\ \A k \in DOMAIN responseCache' : responseCache'[k] = responseCache[k]
       /\ UNCHANGED <<mcpProcess, mcpTools, requestId, pendingRequests, calls,
                      timersFired, spawned, exited, pc, aw, ex, now>>]_vars

\* C30 witness: a sweep has run with two answers stored; the older one is
\* gone and the one that is exactly CACHE_TTL old is still there.
C30_Witness ==
  /\ ev.type = "sweep"
  /\ \E e, f \in Exch :
        /\ e # f
        /\ pc[e] = "done" /\ ex[e].http.mode = "optimized_claude"
        /\ cacheable(ex[e].http.response)
        /\ ~mapHas(responseCache, cacheKeyOf(ex[e].question))
        /\ mapHas(responseCache, cacheKeyOf(ex[f].question))
        /\ now - responseCache[cacheKeyOf(ex[f].question)].timestamp = CACHE_TTL

\* the question lower-cased and without surrounding whitespace
normalized(q) == trim(toLowerCase(q))

\* C31: the entry a question reads and the entry its answer is written to
\* is the one under its normalized form: a hit is served from that entry
\* and from no other, and a store sets that entry and leaves every other
\* entry as it was.
C31_KeyIsNormalizedQuestion ==
  [][\A e \in Exch :
       /\ lookupBy(e) =>
             (ex'[e].http.mode = "cached"
                <=> /\ mapHas(responseCache, normalized(ex'[e].question))
                    /\ now - responseCache[normalized(ex'[e].question)].timestamp
                         < CACHE_TTL)
       /\ (lookupBy(e) /\ ex'[e].http.mode = "cached") =>
             ex'[e].http.response =
               responseCache[normalized(ex'[e].question)].response
       /\ (ev'.type = "fetch" /\ ev'.id = e /\ responseCache' # responseCache) =>
             /\ DOMAIN responseCache' =
                  DOMAIN responseCache \cup {normalized(ex[e].question)}
             /\ responseCache'[normalized(ex[e].question)] =
                  [response |-> ex'[e].http.response, timestamp |-> now]
             /\ \A k \in DOMAIN responseCache :
                  k # normalized(ex[e].question) => responseCache'[k] = responseCache[k]
     ]_vars

\* C31 witness: an answer to a question typed with a capital and a
\* trailing blank is stored under the lower-case, trimmed form, and a
\* question with another normalized form has missed it.
C31_Witness ==
  \E e, f \in Exch :
     /\ ex[e].question = <<"Leads", " ">>
     /\ pc[e] = "done" /\ ex[e].http.mode = "optimized_claude"
     /\ DOMAIN responseCache = {<<"leads">>}
     /\ responseCache[<<"leads">>].response = ex[e].http.response
     /\ now - responseCache[<<"leads">>].timestamp < CACHE_TTL
     /\ ex[f].question = <<"cuentas">>
     /\ ev.type = "request" /\ ev.id = f /\ pc[f] = "fetchFirst"

\* the tool_result that the loop of callClaudeWithMCPTools pushed last
lastToolResult(x) == x.toolResults[Len(x.toolResults)]

\* C32: in the server with in-process tools a failing sfConnection.query is
\* returned by the tool function as {success: false, error} and never
\* thrown: the failure goes on to the follow-up upstream call, and the
\* exchange does not answer HTTP 500 for it.
C32_QueryFailureIsReturned ==
  [][\A e \in {1, 2} :
       (ev'.type = "sfQuery" /\ ev'.id = e /\ ~ev'.ok) =>
          /\ ex'[e].http.status # 500
          /\ pc'[e] \in {"sfQuery", "fetchNext"}
          /\ Len(ex'[e].toolResults) = Len(ex[e].toolResults) + 1
          /\ lastToolResult(ex'[e]).content = ToolValue(FALSE, "boom")
    ]_vars

\* the same for salesforce_aggregate_query alone, whose catch does return
C32_AggregateFailureIsReturned ==
  [][\A e \in {1, 2} :
       (/\ ev'.type = "sfQuery" /\ ev'.id = e /\ ~ev'.ok
        /\ ex[e].data.content[ex[e].idx].name = "salesforce_aggregate_query") =>
          /\ ex'[e].http.status # 500
          /\ pc'[e] \in {"sfQuery", "fetchNext"}
          /\ lastToolResult(ex'[e]).content = ToolValue(FALSE, "boom")
    ]_vars

\* a failing salesforce_query_records has answered 500
C32_Thrown ==
  \E e \in {1, 2} :
    /\ ev.type = "sfQuery" /\ ev.id = e /\ ~ev.ok
    /\ ex[e].http.status = 500 /\ ex[e].http.error = "soql is not defined"
    /\ ex[e].nUpstream = 1

\* C33: pendingRequests holds unsettled calls only: an id is in the table
\* only while the promise of its call is neither resolved nor rejected,
\* whatever settled it, the immediate 'MCP process not available'
\* rejection included.
C33_TableHoldsUnsettledCallsOnly ==
  \A id \in DOMAIN pendingRequests : calls[pendingRequests[id]].settle = <<>>

\* a call rejected as unavailable is still in the table
C33_SettledCallInTable ==
  \E id \in DOMAIN pendingRequests :
    /\ calls[pendingRequests[id]].settle # <<>>
    /\ calls[pendingRequests[id]].settle[1].by = "unavailable"
    /\ calls[pendingRequests[id]].written = 0

\* child g has answered a tools/list call, which follows the initialize call
handshakeCompleted(g) ==
  \E i, j \in 1..Len(calls) :
    /\ i < j
    /\ calls[i].method = "initialize" /\ calls[i].written = g
    /\ calls[i].settle # <<>> /\ calls[i].settle[1].ok
    /\ calls[j].method = "tools/list" /\ calls[j].written = g
    /\ calls[j].settle # <<>> /\ calls[j].settle[1].ok

\* C34: no tools/call is written to a child before the initialize and the
\* tools/list call to that child have completed, also when a POST /chat
\* arrives while initMCPServer is still running.
C34_NoToolCallBeforeHandshake ==
  \A k \in 1..Len(calls) :
    (calls[k].method = "tools/call" /\ calls[k].written # 0)
       => handshakeCompleted(calls[k].written)

\* a request that arrived while another request's initMCPServer waited for
\* the new child has had a tool of the old child's list called on the new
\* child, to which no initialize has been sent
C34_ToolCallDuringInit ==
  \E e, f \in Exch, k \in 1..Len(calls) :
    /\ e # f
    /\ pc[e] \in InitPlaces
    /\ mcpTools # <<>>
    /\ calls[k].method = "tools/call" /\ calls[k].owner = f
    /\ calls[k].written = spawned /\ spawned = 2
    /\ \A i \in 1..Len(calls) : calls[i].written # spawned \/ i = k

\* some initialization has succeeded: a tools/list call was answered with a
\* result
initSucceeded ==
  \E j \in 1..Len(calls) :
    /\ calls[j].method = "tools/list"
    /\ calls[j].settle # <<>>
    /\ calls[j].settle[1].ok /\ calls[j].settle[1].val # "null"

\* C35: after initMCPServer has returned false, no later POST /chat enters
\* the loop until an initialization has succeeded: it runs initMCPServer
\* again or is answered with mode 'error'.
C35_NoLoopAfterFailedInit ==
  [][\A e \in {1} :
       (/\ pc[0] = "done" /\ ~initSucceeded
        /\ requestReachesChildTest(e))
          => \/ pc'[e] \in InitPlaces
             \/ ex'[e].http.mode = "error"]_vars

\* the initialize call of the start-up timed out, the child lives on, and a
\* later request is in the loop
C35_LoopAfterFailedInit ==
  /\ pc[0] = "done" /\ ~initSucceeded
  /\ mcpProcess = 1 /\ exited = {}
  /\ calls[1].method = "initialize" /\ calls[1].settle # <<>>
  /\ calls[1].settle[1].by = "timeout"
  /\ pc[1] = "fetchFirst"

\* the children that were spawned and have not exited
liveChildren == (1..spawned) \ exited

\* C36: at most one child is live at any time, and mcpProcess is its
\* handle; a child is spawned only when no child spawned before is still
\* running, and the exit event of a child never clears the handle of another.
C36_AtMostOneChildLive ==
  /\ [](/\ Cardinality(liveChildren) <= 1
        /\ \A g \in liveChildren : mcpProcess = g)
  /\ [][/\ spawned' # spawned =>
              /\ liveChildren = {}
              /\ spawned' = spawned + 1
              /\ mcpProcess = 0 /\ mcpProcess' = spawned'
        /\ \A g \in exited' \ exited : mcpProcess \in {0, g}]_vars

\* the first child has exited, a request has spawned the second, and the
\* second has exited too or another request has found it running
C36_Witness ==
  /\ spawned = 2 /\ 1 \in exited
  /\ pc[1] \in InitPlaces \cup {"done"}
  /\ pc[2] = "fetchFirst"
  /\ liveChildren = {2} /\ mcpProcess = 2

\* the tools/call calls of exchange e that are not settled, among cs
openToolCalls(cs, e) ==
  {k \in 1..Len(cs) : /\ cs[k].owner = e /\ cs[k].method = "tools/call"
                      /\ cs[k].settle = <<>>}

\* C37: the tool calls of one exchange run one after the other: the
\* exchange has at most one unsettled tools/call at any time, it sends the
\* next one only when the one before is settled, and it makes no upstream
\* call while one of its tool calls is unsettled.
C37_ToolCallsAreSequential ==
  /\ [](\A e \in Exch :
          /\ Cardinality(openToolCalls(calls, e)) <= 1
          /\ pc[e] \in {"fetchFirst", "fetchNext"} => openToolCalls(calls, e) = {})
  /\ [][\A e \in Exch :
          /\ \A k \in newCalls :
               (calls'[k].owner = e /\ calls'[k].method = "tools/call")
                  => \A j \in 1..(k - 1) : j \notin openToolCalls(calls', e)
          /\ ex'[e].nUpstream > ex[e].nUpstream
               => openToolCalls(calls', e) = {}]_vars

\* C37 witness: a turn asked for two tools; the first call of the exchange
\* is settled and the second, sent after it, is not
C37_Witness ==
  \E e \in Exch, j, k \in 1..Len(calls) :
    /\ j < k
    /\ calls[j].owner = e /\ calls[j].method = "tools/call"
    /\ calls[k].owner = e /\ calls[k].method = "tools/call"
    /\ calls[j].settle # <<>> /\ calls[k].settle = <<>>
    /\ pc[e] = "tool" /\ aw[e] = k
    /\ ex[e].nUpstream = 1
    /\ toolUseCount(ex[e].data.content) = 2

\* exchange e is answered from the cache in this step
servedFromCache(e) == pc[e] = "idle" /\ ex'[e].http.mode = "cached"

\* C38: a cache hit leaves the cache as it was, the timestamp of the entry
\* included: an entry gets its timestamp in the exchange that stores it and
\* from nowhere else, and it is served only while it is younger than
\* CACHE_TTL, however often it is read.
C38_HitLeavesCacheUnchanged ==
  [][/\ \A e \in Exch :
          servedFromCache(e) =>
             /\ responseCache' = responseCache
             /\ now - responseCache'[normalized(ex'[e].question)].timestamp < CACHE_TTL
             /\ now - responseCache'[normalized(ex'[e].question)].timestamp >= 0
     /\ \A key \in DOMAIN responseCache' :
          (key \notin DOMAIN responseCache \/ responseCache'[key] # responseCache[key])
             => /\ ev'.type = "fetch"
                /\ responseCache'[key].timestamp = now
                /\ responseCache'[key].response = ex'[ev'.id].http.response
                /\ ex'[ev'.id].http.mode = "optimized_claude"]_vars

\* C38 witness: the entry stored at tick 0 was read at tick 1 and still
\* carries tick 0
C38_Witness ==
  /\ ex[1].http.mode = "optimized_claude"
  /\ ex[2].http.mode = "cached"
  /\ ev.type = "request" /\ ev.id = 2
  /\ now = 1
  /\ mapHas(responseCache, normalized(ex[2].question))
  /\ responseCache[normalized(ex[2].question)].timestamp = 0
  /\ ex[2].question = ex[1].question

\* C39: every POST /chat exchange of a capped server is answered in the
\* end, and with one HTTP response, neither none nor two, whatever the child
\* does, when every upstream call returns.
C39_ExactlyOneResponse ==
  /\ [](\A e \in Exch : /\ ex[e].sent <= 1
                        /\ (pc[e] = "done" <=> ex[e].sent = 1))
  /\ (pc[1] # "idle") ~> (pc[1] = "done" /\ ex[1].sent = 1)

\* C39 witness: the exchange was answered after a tools/call to a silent
\* child timed out, and a line for that call came afterwards
C39_Witness ==
  /\ pc[1] = "done" /\ ex[1].sent = 1 /\ ex[1].http.status = 200
  /\ \E k \in 1..Len(calls) :
       /\ calls[k].method = "tools/call" /\ calls[k].owner = 1
       /\ calls[k].settle # <<>> /\ calls[k].settle[1].by = "timeout"
       /\ ev.type = "line" /\ ev.id = calls[k].id

====
